---- MODULE Spec2Model ----
(***************************************************************************)
(* PyFRC2G: firewall rules of pfSense / OPNSense fetched over the vendor   *)
(* API, normalised into canonical CSV rows, fingerprinted with MD5 and     *)
(* rendered as per-gateway graphs.  The module models src/modules:         *)
(*   utils.py            map_value, update_api_maps, normalize_ports       *)
(*   api_client.py       alias / interface / rule fetch, de-duplication    *)
(*   main.py             the run: fetch, normalise, change detection       *)
(*   graph_generator.py  generate_graphs, get_node                         *)
(***************************************************************************)
EXTENDS Integers, Sequences, FiniteSets, TLC

(***************************************************************************)
(* Python values.  A JSON value is a tagged record, so that None, "", 0,   *)
(* False, [] and a missing key stay distinguishable, as they are in the    *)
(* source (dict.get defaults, truthiness, str()).                          *)
(***************************************************************************)
Absent == [t |-> "absent"]
Null == [t |-> "null"]
S(s) == [t |-> "str", v |-> s]
B(b) == [t |-> "bool", v |-> b]
I(n) == [t |-> "int", v |-> n]
L(q) == [t |-> "list", v |-> q]
D(r) == [t |-> "dict", v |-> r]

\* str.lower() on the strings the model uses.
lower(s) ==
  CASE s = "LAN" -> "lan"
    [] s = "WAN" -> "wan"
    [] s = "OPT1" -> "opt1"
    [] s = "Lan" -> "lan"
    [] s = "WebSrv" -> "websrv"
    [] s = "WEB" -> "web"
    [] s = "HTTPS" -> "https"
    [] s = "Office LAN" -> "office lan"
    [] s = "Web servers" -> "web servers"
    [] s = "Any" -> "any"
    [] s = "None" -> "none"
    [] s = "True" -> "true"
    [] s = "False" -> "false"
    [] OTHER -> s

\* str.upper() on the strings the model uses.
upper(s) ==
  CASE s = "lan" -> "LAN"
    [] s = "wan" -> "WAN"
    [] s = "opt1" -> "OPT1"
    [] s = "Lan" -> "LAN"
    [] s = "pass" -> "PASS"
    [] s = "block" -> "BLOCK"
    [] s = "reject" -> "REJECT"
    [] s = "Any" -> "ANY"
    [] s = "lo0" -> "LO0"
    [] s = "em0" -> "EM0"
    [] OTHER -> s

\* str(int) for a natural number.
Digit(d) ==
  CASE d = 0 -> "0" [] d = 1 -> "1" [] d = 2 -> "2" [] d = 3 -> "3" [] d = 4 -> "4"
    [] d = 5 -> "5" [] d = 6 -> "6" [] d = 7 -> "7" [] d = 8 -> "8" [] d = 9 -> "9"

RECURSIVE IntStr(_)
IntStr(n) == IF n < 10 THEN Digit(n) ELSE IntStr(n \div 10) \o Digit(n % 10)

\* ", ".join(seq) for a sequence of strings.
RECURSIVE Join(_)
Join(q) ==
  IF q = <<>> THEN ""
  ELSE IF Len(q) = 1 THEN q[1]
  ELSE q[1] \o ", " \o Join(Tail(q))

\* Python truthiness: bool(x).
truthy(x) ==
  CASE x.t = "absent" -> FALSE
    [] x.t = "null" -> FALSE
    [] x.t = "str" -> x.v # ""
    [] x.t = "bool" -> x.v
    [] x.t = "int" -> x.v # 0
    [] x.t = "list" -> x.v # <<>>
    [] x.t = "dict" -> TRUE

\* Python str(x) for a scalar or a list of strings already joined by the caller.
str(x) ==
  CASE x.t = "null" -> "None"
    [] x.t = "str" -> x.v
    [] x.t = "bool" -> (IF x.v THEN "True" ELSE "False")
    [] x.t = "int" -> IntStr(x.v)

\* Python `a or b`.
PyOr(a, b) == IF truthy(a) THEN a ELSE b

\* dict.get(key): None when the key is missing.
get(entry, key) == IF entry[key].t = "absent" THEN Null ELSE entry[key]

\* dict.get(key, default).
getd(entry, key, default) == IF entry[key].t = "absent" THEN default ELSE entry[key]

\* A Python dict with string keys and string values: a function on a finite set.
EmptyDict == [k \in {} |-> ""]
Put(d, k, v) == (k :> v) @@ d
Has(d, k) == k \in DOMAIN d

(***************************************************************************)
(* Configuration constants (config.py).                                    *)
(***************************************************************************)
ANY_VALUE == "Any"
UNKNOWN_LABEL == "<unknown>"
DISABLED_LABEL == "Rule disabled"
FLOATING_RULES_LABELS == <<"Floating-rules", "Regles-flottantes", "Regles flottantes">>
GATEWAY_NAME == "GW1"
CSV_FIELDNAMES ==
  <<"SOURCE", "GATEWAY", "ACTION", "PROTOCOL", "PORT", "DESTINATION",
    "COMMENT", "DISABLED", "FLOATING">>

(***************************************************************************)
(* HTTP sub-requests (api_client.py, _make_api_request).  A response of    *)
(* the firewall is [kind, data]: kind "ok" carries the decoded JSON        *)
(* payload; "timeout", "connection" and "http" make _make_api_request      *)
(* return None; "badjson" is a 2xx answer whose body response.json()       *)
(* cannot decode (ValueError, caught by the caller).                       *)
(***************************************************************************)
FailureKinds == {"timeout", "connection", "http", "badjson"}
Ok(data) == [kind |-> "ok", data |-> data]
Failed(kind) == [kind |-> kind, data |-> <<>>]

\* _make_api_request: TRUE when a Response object is returned (not None).
MakeApiRequest(resp) == resp.kind \notin {"timeout", "connection", "http"}

\* The list the caller iterates over: the payload when the request returned a
\* response and response.json() decoded it, else nothing (the `if response:`
\* guard, or the except clause, skips the loop).
Payload(resp) == IF MakeApiRequest(resp) /\ resp.kind = "ok" THEN resp.data ELSE <<>>

\* Ill-shaped 2xx bodies: "toplist" is a JSON list where an object is
\* expected (data carries the list), "notlist" an object whose list member
\* ("data", "rows", or the alias map) has another type, "badcontainer" an
\* OPNSense alias answer whose "alias" member is not an object.
ShapeKinds == {"toplist", "notlist", "badcontainer"}
Shaped(kind, data) == [kind |-> kind, data |-> data]

\* The shapes an endpoint can be answered with: only the OPNSense alias
\* answer has a container between the body and the alias map.
ShapesOf(gateway_type, endpoint) ==
  IF gateway_type = "opnsense" /\ endpoint = "aliases"
    THEN ShapeKinds ELSE {"toplist", "notlist"}

\* What the parsing code of an endpoint does with an ill-shaped body: "use"
\* iterates over the list, "empty" coerces to an empty container, "raise" is
\* an AttributeError, which no except clause of api_client.py catches.
\*   aliases, pfSense 155-159 and interfaces 209-213, detection 642-646:
\*     data.get("data", []) if isinstance(data, dict) else data
\*   aliases, OPNSense 258-264: data.get("alias", {}).get("aliases", {})
\*   interfaces, OPNSense 350: ... if isinstance(data, dict) else []
\*   detection 685-687, 789: isinstance(data, dict) tested first
\*   rules 432, 475, 546, 586, 713, 843: data.get(...) without a test
ShapeOutcome(gateway_type, endpoint, kind) ==
  IF kind = "notlist" THEN "empty"
  ELSE IF kind = "badcontainer" THEN "raise"
  ELSE IF endpoint = "rules" THEN "raise"
  ELSE IF endpoint = "detect_fallback" THEN "empty"
  ELSE IF gateway_type = "pfsense" THEN "use"
  ELSE IF endpoint = "aliases" THEN "raise"
  ELSE "empty"

\* The parsing code of the endpoint raises on this answer.
Raises(gateway_type, endpoint, resp) ==
  /\ resp.kind \in ShapeKinds
  /\ ShapeOutcome(gateway_type, endpoint, resp.kind) = "raise"

\* The list the loop of the endpoint iterates over.
Iterated(gateway_type, endpoint, resp) ==
  IF resp.kind \in ShapeKinds
    THEN (IF ShapeOutcome(gateway_type, endpoint, resp.kind) = "use" THEN resp.data ELSE <<>>)
    ELSE Payload(resp)

(***************************************************************************)
(* Alias and interface fetch (api_client.py).  maps is the APIClient's     *)
(* five dictionaries: iface, net, addr, port (name -> label) and details   *)
(* (name -> [name, type, content, description]).                           *)
(***************************************************************************)
EmptyMaps ==
  [iface |-> EmptyDict, net |-> EmptyDict, addr |-> EmptyDict,
   port |-> EmptyDict, details |-> [k \in {} |-> [name |-> "", type |-> "", content |-> "", description |-> ""]]]

\* [addr for addr in address_list if addr]
RECURSIVE NonEmpty(_)
NonEmpty(q) ==
  IF q = <<>> THEN <<>>
  ELSE IF q[1] # "" THEN <<q[1]>> \o NonEmpty(Tail(q)) ELSE NonEmpty(Tail(q))

\* The alias loop of _fetch_pfsense_aliases retaining host, network and port
\* aliases only.
PfAliasStepSupportedOnly(maps, alias) ==
  LET name == lower(alias.name)
      address_str == Join(NonEmpty(alias.address))
      description == IF alias.descr # "" THEN alias.descr ELSE alias.name
      det == Put(maps.details, name,
                 [name |-> alias.name, type |-> alias.type,
                  content |-> address_str, description |-> description])
  IN  IF alias.type \in {"host", "network"}
        THEN [maps EXCEPT !.details = det,
                          !.net = Put(maps.net, name, description),
                          !.addr = Put(maps.addr, name, description)]
      ELSE IF alias.type = "port"
        THEN [maps EXCEPT !.details = det,
                          !.port = Put(maps.port, name,
                                       IF address_str # "" THEN address_str ELSE description)]
      ELSE maps

\* One iteration of the alias loop of _fetch_pfsense_aliases.
PfAliasStep(maps, alias) ==
  LET name == lower(alias.name)
      address_str == Join(NonEmpty(alias.address))
      description == IF alias.descr # "" THEN alias.descr ELSE alias.name
      det == Put(maps.details, name,
                 [name |-> alias.name, type |-> alias.type,
                  content |-> address_str, description |-> description])
  IN  IF alias.type \in {"host", "network"}
        THEN [maps EXCEPT !.details = det,
                          !.net = Put(maps.net, name, description),
                          !.addr = Put(maps.addr, name, description)]
      ELSE IF alias.type = "port"
        THEN [maps EXCEPT !.details = det,
                          !.port = Put(maps.port, name,
                                       IF address_str # "" THEN address_str ELSE description)]
      ELSE [maps EXCEPT !.details = det, !.net = Put(maps.net, name, description)]

\* One iteration of the interface loop of _fetch_pfsense_aliases.
PfIfaceStep(maps, iface) ==
  IF iface.id = "" THEN maps
  ELSE [maps EXCEPT !.iface =
          Put(maps.iface, lower(iface.id),
              IF iface.descr # "" THEN iface.descr ELSE upper(iface.id))]

\* The alias loop of _fetch_opnsense_aliases without the test of `enabled`.
OpnAliasStepDisabledToo(maps, alias) ==
  LET name == lower(alias.name)
      description == IF alias.description # "" THEN alias.description ELSE alias.name
      content_str == Join(NonEmpty(alias.content))
      det == Put(maps.details, name,
                 [name |-> alias.name, type |-> alias.type,
                  content |-> content_str, description |-> description])
  IN  IF alias.name = "" THEN maps
      ELSE IF alias.type \notin {"host", "network", "port"} THEN maps
      ELSE IF alias.type \in {"host", "network"}
        THEN [maps EXCEPT !.details = det,
                          !.net = Put(maps.net, name, description),
                          !.addr = Put(maps.addr, name, description)]
      ELSE [maps EXCEPT !.details = det,
                        !.port = Put(maps.port, name,
                                     IF content_str # "" THEN content_str ELSE description)]

\* One iteration of the alias loop of _fetch_opnsense_aliases.
OpnAliasStep(maps, alias) ==
  LET name == lower(alias.name)
      description == IF alias.description # "" THEN alias.description ELSE alias.name
      content_str == Join(NonEmpty(alias.content))
      det == Put(maps.details, name,
                 [name |-> alias.name, type |-> alias.type,
                  content |-> content_str, description |-> description])
  IN  IF alias.enabled # "1" THEN maps
      ELSE IF alias.name = "" THEN maps
      ELSE IF alias.type \notin {"host", "network", "port"} THEN maps
      ELSE IF alias.type \in {"host", "network"}
        THEN [maps EXCEPT !.details = det,
                          !.net = Put(maps.net, name, description),
                          !.addr = Put(maps.addr, name, description)]
      ELSE [maps EXCEPT !.details = det,
                        !.port = Put(maps.port, name,
                                     IF content_str # "" THEN content_str ELSE description)]

\* One iteration of the interface loop of _fetch_opnsense_aliases.
OpnIfaceStep(maps, row) ==
  LET identifier == lower(row.identifier)
      description == IF row.description # "" THEN row.description ELSE row.cfgdescr
  IN  IF identifier # "" /\ identifier \notin {"lo0", "enc0", "pflog0", ""} /\ row.enabled
        THEN [maps EXCEPT !.iface =
                Put(maps.iface, identifier,
                    IF description # "" THEN description ELSE upper(identifier))]
      ELSE maps

\* The loops: fold a step over the decoded list.
RECURSIVE FoldPfAlias(_, _)
FoldPfAlias(maps, q) ==
  IF q = <<>> THEN maps ELSE FoldPfAlias(PfAliasStep(maps, q[1]), Tail(q))

RECURSIVE FoldPfIface(_, _)
FoldPfIface(maps, q) ==
  IF q = <<>> THEN maps ELSE FoldPfIface(PfIfaceStep(maps, q[1]), Tail(q))

RECURSIVE FoldOpnAlias(_, _)
FoldOpnAlias(maps, q) ==
  IF q = <<>> THEN maps ELSE FoldOpnAlias(OpnAliasStep(maps, q[1]), Tail(q))

RECURSIVE FoldOpnIface(_, _)
FoldOpnIface(maps, q) ==
  IF q = <<>> THEN maps ELSE FoldOpnIface(OpnIfaceStep(maps, q[1]), Tail(q))

\* _fetch_pfsense_aliases: the maps after the alias and the interface request.
FetchPfsenseAliases(aliasResp, ifaceResp) ==
  FoldPfIface(FoldPfAlias(EmptyMaps, Payload(aliasResp)), Payload(ifaceResp))

\* _fetch_opnsense_aliases: the maps after the alias and the interface request.
FetchOpnsenseAliases(aliasResp, ifaceResp) ==
  FoldOpnIface(FoldOpnAlias(EmptyMaps, Payload(aliasResp)), Payload(ifaceResp))

\* APIClient.fetch_aliases: dispatch on the gateway type; an unknown type
\* fetches nothing and leaves the global maps untouched.
FetchAliases(gateway_type, aliasResp, ifaceResp) ==
  IF gateway_type = "pfsense" THEN FetchPfsenseAliases(aliasResp, ifaceResp)
  ELSE IF gateway_type = "opnsense" THEN FetchOpnsenseAliases(aliasResp, ifaceResp)
  ELSE EmptyMaps

(***************************************************************************)
(* map_value (utils.py).  The result is a Python value: an alias label,    *)
(* the sentinel, or the raw value (a list already joined).                 *)
(***************************************************************************)
MapJoin(value) == IF value.t = "list" THEN S(Join(value.v)) ELSE value

\* map_value looking a destination up in the network table before the
\* interface table.
map_value_net_first(value, field, any_value, maps) ==
  IF value.t = "null" THEN S(any_value)
  ELSE IF field \in {"source", "interface"} /\ Has(maps.iface, lower(str(MapJoin(value))))
    THEN S(maps.iface[lower(str(MapJoin(value)))])
  ELSE IF field = "destination_port" /\ Has(maps.port, str(MapJoin(value)))
    THEN S(maps.port[str(MapJoin(value))])
  ELSE IF field = "destination" /\ Has(maps.net, lower(str(MapJoin(value))))
    THEN S(maps.net[lower(str(MapJoin(value)))])
  ELSE IF field = "destination" /\ Has(maps.iface, lower(str(MapJoin(value))))
    THEN S(maps.iface[lower(str(MapJoin(value)))])
  ELSE IF field = "destination" /\ Has(maps.addr, lower(str(MapJoin(value))))
    THEN S(maps.addr[lower(str(MapJoin(value)))])
  ELSE MapJoin(value)

\* utils.py 61-94
map_value(value, field, any_value, maps) ==
  IF value.t = "null" THEN S(any_value)
  ELSE
    LET v == MapJoin(value)
        val == lower(str(v))
    IN  IF field \in {"source", "interface"} /\ Has(maps.iface, val)
          THEN S(maps.iface[val])
        ELSE IF field = "destination_port" /\ Has(maps.port, str(v))
          THEN S(maps.port[str(v)])
        ELSE IF field = "destination" /\ Has(maps.iface, val)
          THEN S(maps.iface[val])
        ELSE IF field = "destination" /\ Has(maps.net, val)
          THEN S(maps.net[val])
        ELSE IF field = "destination" /\ Has(maps.addr, val)
          THEN S(maps.addr[val])
        ELSE v

\* What csv.DictWriter writes for a cell: str(value).
CsvCell(value) == str(value)

(***************************************************************************)
(* Rule normaliser (main.py).  A canonical row is a record of the 9 CSV    *)
(* cells (field names in lower case), each the string DictWriter writes.  *)
(***************************************************************************)
\* The pfSense row with a floating rule written under the gateway
\* "<name>/Floating-rules", as the OPNSense branch writes it.
NormalizePfsenseFloatingGateway(entry, maps) ==
  [source |-> CsvCell(map_value(get(entry, "source"), "source", ANY_VALUE, maps)),
   gateway |-> IF truthy(get(entry, "floating"))
                 THEN GATEWAY_NAME \o "/Floating-rules"
                 ELSE GATEWAY_NAME \o "/" \o
                      str(map_value(get(entry, "interface"), "interface", ANY_VALUE, maps)),
   action |-> CsvCell(map_value(get(entry, "type"), "none", ANY_VALUE, maps)),
   protocol |-> CsvCell(map_value(get(entry, "protocol"), "none", ANY_VALUE, maps)),
   port |-> CsvCell(map_value(get(entry, "destination_port"), "destination_port", ANY_VALUE, maps)),
   destination |-> CsvCell(map_value(get(entry, "destination"), "destination", ANY_VALUE, maps)),
   comment |-> CsvCell(map_value(get(entry, "descr"), "none", ANY_VALUE, maps)),
   disabled |-> CsvCell(map_value(get(entry, "disabled"), "none", ANY_VALUE, maps)),
   floating |-> CsvCell(map_value(get(entry, "floating"), "none", ANY_VALUE, maps))]

\* main.py 61-71: the row written for one pfSense rule.
NormalizePfsense(entry, maps) ==
  [source |-> CsvCell(map_value(get(entry, "source"), "source", ANY_VALUE, maps)),
   gateway |-> GATEWAY_NAME \o "/" \o
               str(map_value(get(entry, "interface"), "interface", ANY_VALUE, maps)),
   action |-> CsvCell(map_value(get(entry, "type"), "none", ANY_VALUE, maps)),
   protocol |-> CsvCell(map_value(get(entry, "protocol"), "none", ANY_VALUE, maps)),
   port |-> CsvCell(map_value(get(entry, "destination_port"), "destination_port", ANY_VALUE, maps)),
   destination |-> CsvCell(map_value(get(entry, "destination"), "destination", ANY_VALUE, maps)),
   comment |-> CsvCell(map_value(get(entry, "descr"), "none", ANY_VALUE, maps)),
   disabled |-> CsvCell(map_value(get(entry, "disabled"), "none", ANY_VALUE, maps)),
   floating |-> CsvCell(map_value(get(entry, "floating"), "none", ANY_VALUE, maps))]

\* entry.get(field, {}).get(sub) of main.py 89-98, for a field that is a dict
\* or is missing.
SubGet(entry, field, sub) ==
  IF entry[field].t = "absent" THEN Null ELSE get(entry[field].v, sub)

\* main.py 89-98 raise AttributeError when source or destination is present
\* and is not a dict (None, a string, a list).
OpnsenseRowRaises(entry) ==
  \/ entry.source.t \notin {"absent", "dict"}
  \/ entry.destination.t \notin {"absent", "dict"}

\* main.py 89-111: the row written for one OPNSense rule.
NormalizeOpnsense(entry, maps) ==
  LET source_val ==
        PyOr(SubGet(entry, "source", "network"),
        PyOr(SubGet(entry, "source", "address"),
        PyOr(get(entry, "source_net"), SubGet(entry, "source", "any"))))
      destination_val ==
        PyOr(SubGet(entry, "destination", "network"),
        PyOr(SubGet(entry, "destination", "address"),
        PyOr(SubGet(entry, "destination", "any"), get(entry, "destination_net"))))
      port_dest_val ==
        PyOr(SubGet(entry, "destination", "port"), get(entry, "destination_port"))
      entry_interface == get(entry, "interface")
  IN
  [source |-> CsvCell(map_value(source_val, "source", ANY_VALUE, maps)),
   gateway |-> IF truthy(entry_interface)
                 THEN GATEWAY_NAME \o "/" \o
                      str(map_value(entry_interface, "interface", ANY_VALUE, maps))
                 ELSE GATEWAY_NAME \o "/Floating-rules",
   action |-> CsvCell(map_value(get(entry, "action"), "none", ANY_VALUE, maps)),
   protocol |-> CsvCell(map_value(get(entry, "protocol"), "none", ANY_VALUE, maps)),
   port |-> CsvCell(map_value(port_dest_val, "destination_port", ANY_VALUE, maps)),
   destination |-> CsvCell(map_value(destination_val, "destination", ANY_VALUE, maps)),
   comment |-> CsvCell(map_value(get(entry, "description"), "none", ANY_VALUE, maps)),
   disabled |-> "False",
   floating |-> IF ~truthy(entry_interface) THEN "True" ELSE "False"]

(***************************************************************************)
(* Rule fetch: stable identifiers and de-duplication (api_client.py).      *)
(***************************************************************************)
\* f"{entry.get('sequence', '')}{entry.get('interface', '')}"
SeqIface(entry) ==
  S(str(getd(entry, "sequence", S(""))) \o str(getd(entry, "interface", S(""))))

\* api_client.py 447, 490: the pfSense rule id.
PfsenseRuleId(entry) ==
  PyOr(get(entry, "tracker"), PyOr(get(entry, "id"), SeqIface(entry)))

\* api_client.py 561, 597: the OPNSense rule id.
OpnsenseRuleId(entry) == PyOr(get(entry, "uuid"), SeqIface(entry))

RuleId(gateway_type, entry) ==
  IF gateway_type = "pfsense" THEN PfsenseRuleId(entry) ELSE OpnsenseRuleId(entry)

\* The loop body without the test of the identifiers seen: every rule with an
\* identifier is appended.
DedupStepKeepAll(gateway_type, acc, entry) ==
  IF truthy(RuleId(gateway_type, entry))
    THEN [entries |-> Append(acc.entries, entry),
          seen |-> acc.seen \cup {RuleId(gateway_type, entry)}]
    ELSE acc

\* The body of the de-duplication loops (448-450, 491-493, 562-564, 598-600):
\* acc is [entries, seen].
DedupStep(gateway_type, acc, entry) ==
  LET rule_id == RuleId(gateway_type, entry)
  IN  IF truthy(rule_id) /\ rule_id \notin acc.seen
        THEN [entries |-> Append(acc.entries, entry), seen |-> acc.seen \cup {rule_id}]
        ELSE acc

RECURSIVE Dedup(_, _, _)
Dedup(gateway_type, acc, q) ==
  IF q = <<>> THEN acc
  ELSE Dedup(gateway_type, DedupStep(gateway_type, acc, q[1]), Tail(q))

\* api_client.py 483: e.get("interface", "").lower() raises AttributeError for
\* an entry whose interface is present and is not a string (null, a number).
FilterRaises(q) ==
  \E i \in 1..Len(q) : q[i].interface.t \notin {"absent", "str"}

\* api_client.py 483: the client-side filter of a pfSense per-interface answer.
RECURSIVE FilterByInterface(_, _)
FilterByInterface(q, interface) ==
  IF q = <<>> THEN <<>>
  ELSE IF lower(str(getd(q[1], "interface", S("")))) = lower(interface)
    THEN <<q[1]>> \o FilterByInterface(Tail(q), interface)
  ELSE FilterByInterface(Tail(q), interface)

(***************************************************************************)
(* Interface auto-detection (api_client.py 618-893).                       *)
(***************************************************************************)
SystemInterfaces == {"lo0", "enc0", "pflog0", ""}
NonInterfaceTokens == {"1", "any", "(self)", "", "none", "null"}

\* str.strip() on the strings the model uses.
strip(s) == CASE s = " lan " -> "lan" [] s = "Allow web " -> "Allow web" [] OTHER -> s

\* str.startswith("opt") on the strings the model uses.
StartsWithOpt(s) == s \in {"opt1", "opt2", "optical"}

\* Lexicographic rank of the strings sorted() is applied to.
StrRank(s) ==
  CASE s = "lan" -> 1 [] s = "opt1" -> 2 [] s = "opt2" -> 3
    [] s = "optical" -> 4 [] s = "wan" -> 5 [] OTHER -> 0

\* sorted(list(set(xs))) for a set of strings.
RECURSIVE Sorted(_)
Sorted(xs) ==
  IF xs = {} THEN <<>>
  ELSE LET m == CHOOSE x \in xs : \A y \in xs : StrRank(x) <= StrRank(y)
       IN  <<m>> \o Sorted(xs \ {m})

\* 650-665: one entry of the pfSense /api/v2/interfaces answer.
PfDetectPrimaryStep(interfaces, iface) ==
  IF iface.id # "" /\ lower(iface.id) \notin SystemInterfaces /\ iface.enable
    THEN interfaces \cup {lower(iface.id)}
    ELSE interfaces

\* 688-693: one entry of the pfSense /api/v1/firewall/interface answer.
PfDetectFallbackStep(interfaces, iface) ==
  IF lower(iface.ifname) # "" /\ lower(iface.ifname) \notin {"lo0", "enc0", "pflog0"}
    THEN interfaces \cup {lower(iface.ifname)}
    ELSE interfaces

\* 798-820: one row of the OPNSense interfaces_info answer.
OpnDetectPrimaryStep(interfaces, row) ==
  LET a == IF row.identifier # "" /\ row.identifier \notin SystemInterfaces /\ row.enabled
             THEN interfaces \cup {row.identifier} ELSE interfaces
  IN  IF row.cfgif # "" /\ row.cfgif \notin {"lo0", "enc0", "pflog0"}
         /\ row.enabled /\ row.identifier = ""
        THEN a \cup {row.cfgif} ELSE a

\* 730-737, 859-866: interface names referenced by source / destination.
RefsOf(entry, field) ==
  IF entry[field].t # "dict" THEN {}
  ELSE {lower(str(entry[field].v[sub])) : sub \in
          {x \in {"network", "address"} :
             /\ truthy(entry[field].v[x])
             /\ LET val == lower(str(entry[field].v[x]))
                IN  val \in {"wan", "lan"} \/ StartsWithOpt(val)}}

\* 722-737, 852-866: one rule of the rules answer scanned for interface names.
DetectRulesStep(gateway_type, interfaces, entry) ==
  LET own == IF truthy(entry.interface)
               THEN {IF gateway_type = "pfsense" THEN lower(str(entry.interface))
                                                  ELSE str(entry.interface)}
               ELSE {}
  IN  interfaces \cup own \cup RefsOf(entry, "source") \cup RefsOf(entry, "destination")

RECURSIVE FoldPfDetectPrimary(_, _)
FoldPfDetectPrimary(interfaces, q) ==
  IF q = <<>> THEN interfaces
  ELSE FoldPfDetectPrimary(PfDetectPrimaryStep(interfaces, q[1]), Tail(q))

RECURSIVE FoldPfDetectFallback(_, _)
FoldPfDetectFallback(interfaces, q) ==
  IF q = <<>> THEN interfaces
  ELSE FoldPfDetectFallback(PfDetectFallbackStep(interfaces, q[1]), Tail(q))

RECURSIVE FoldOpnDetectPrimary(_, _)
FoldOpnDetectPrimary(interfaces, q) ==
  IF q = <<>> THEN interfaces
  ELSE FoldOpnDetectPrimary(OpnDetectPrimaryStep(interfaces, q[1]), Tail(q))

RECURSIVE FoldDetectRules(_, _, _)
FoldDetectRules(gateway_type, interfaces, q) ==
  IF q = <<>> THEN interfaces
  ELSE FoldDetectRules(gateway_type, DetectRulesStep(gateway_type, interfaces, q[1]), Tail(q))

\* 743-756, 872-885: the final filter, sorted and de-duplicated.
ValidInterfaces(interfaces) ==
  Sorted({strip(lower(i)) : i \in
           {x \in interfaces :
              LET iface_str == strip(lower(x))
              IN  /\ iface_str # ""
                  /\ iface_str \notin NonInterfaceTokens
                  /\ (iface_str \in {"wan", "lan"} \/ StartsWithOpt(iface_str))}})

(***************************************************************************)
(* Change detection and artefacts (main.py 118-173, graph_generator.py).   *)
(***************************************************************************)
\* calculate_md5 of the CSV file.  MD5 is taken to be collision-free on the
\* files of the model: the digest of a file is the 1-tuple of its content, and
\* <<>> is the empty string read when md5sum.txt does not exist.
calculate_md5(rows) == <<[header |-> CSV_FIELDNAMES, rows |-> rows]>>
NoDigest == <<>>

\* Interface labels that can follow "<gateway name>/" in a GATEWAY cell.
InterfaceLabels ==
  {"lan", "LAN", "Lan", "wan", "WAN", "opt1", "OPT1", "Office LAN", "DMZ",
   "LO0", "lo0", "Any", "Floating-rules", "WLAN", ""}

\* gateway.split("/", 1)[1] if "/" in gateway else gateway
InterfaceOf(gateway) ==
  IF \E l \in InterfaceLabels : gateway = GATEWAY_NAME \o "/" \o l
    THEN CHOOSE l \in InterfaceLabels : gateway = GATEWAY_NAME \o "/" \o l
    ELSE gateway

\* safe_filename on an interface label: ' ' -> '_' ('/', '<', '>' do not occur).
SafeLabel(l) == IF l = "Office LAN" THEN "Office_LAN" ELSE l

\* safe_filename (utils.py 40-42) on a gateway or an interface name.
safe_filename(name) ==
  IF \E l \in InterfaceLabels : name = GATEWAY_NAME \o "/" \o l
    THEN GATEWAY_NAME \o "_" \o SafeLabel(InterfaceOf(name))
    ELSE SafeLabel(name)

\* Python `needle in hay` on file names: hay = pre + needle + post for some
\* fragments of the names the model can build.
NameFragments ==
  {"", "GW1_", "GW1_Office_", "Office_", "_LAN", "G", "GW1", "W1_", "-rules",
   "Floating-", "GW1_W", "GW1_L", "GW1_O", "GW1_D", "1", "0", "O0", "AN", "PT1",
   "GW1/"}
Contains(hay, needle) ==
  \E pre \in NameFragments, post \in NameFragments : hay = pre \o needle \o post

\* graph_generator.py 89-91: the gateway a row is drawn under.
RowGateway(row) ==
  IF strip(row.floating) \in {"True", "1"} THEN "Floating-rules" ELSE strip(row.gateway)

\* graph_generator.py 88-97, 157-159: the gateways generate_graphs renders,
\* filter "" standing for interface_filter=None.
GraphGateways(rows, interface_filter) ==
  {RowGateway(rows[i]) : i \in
     {j \in 1..Len(rows) :
        interface_filter = "" \/ InterfaceOf(RowGateway(rows[j])) = interface_filter}}

\* graph_generator.py 29-35: the interfaces generate_by_interface groups by.
InterfaceGroups(rows) == {InterfaceOf(strip(rows[i].gateway)) : i \in 1..Len(rows)}

\* The rows of one group, in file order.
RECURSIVE GroupRows(_, _)
GroupRows(rows, interface_name) ==
  IF rows = <<>> THEN <<>>
  ELSE IF InterfaceOf(strip(rows[1].gateway)) = interface_name
    THEN <<rows[1]>> \o GroupRows(Tail(rows), interface_name)
  ELSE GroupRows(Tail(rows), interface_name)

\* graph_generator.py 158-160, 180: the image files rendered for a set of
\* gateways; an image "<name>.gv.png" is named by <name>.
PngNames(gateways) == {safe_filename(g) : g \in gateways}

\* graph_generator.py 202-209: the images generate_pdf puts in a document
\* (the base name with ".gv.png" removed is searched for the interface name).
PdfPages(pngs, interface_filter) ==
  IF interface_filter = "" THEN pngs
  ELSE {p \in pngs : Contains(p, safe_filename(interface_filter))}

\* generate_pdf without the test for an empty image list: the global document
\* is written whatever the directory holds.
ArtefactsAlwaysDocument(rows, dir_pngs) ==
  [pngs |-> PngNames(GraphGateways(rows, ""))
            \cup UNION {PngNames(GraphGateways(GroupRows(rows, x), x)) :
                          x \in InterfaceGroups(rows)},
   pdfs |-> {"ALL"} \cup InterfaceGroups(rows)]

\* main.py 141-145: the images and documents one regeneration produces from
\* the canonical rows when the output directory holds the images dir_pngs:
\* [pngs, pdfs], pdfs naming "ALL" for the global document and the interface
\* for a per-interface document.  generate_pdf reads every image of the
\* directory and writes nothing when it finds none (204-213).
Artefacts(rows, dir_pngs) ==
  LET global == PngNames(GraphGateways(rows, ""))
      perIface(x) == PngNames(GraphGateways(GroupRows(rows, x), x))
      rendered == global \cup UNION {perIface(x) : x \in InterfaceGroups(rows)}
  IN  [pngs |-> rendered,
       pdfs |-> (IF PdfPages(dir_pngs \cup global, "") # {} THEN {"ALL"} ELSE {})
                \cup {x \in InterfaceGroups(rows) :
                        PdfPages(dir_pngs \cup rendered, x) # {}}]

(***************************************************************************)
(* Graph construction (graph_generator.py 62-154).  flows_by_gateway maps  *)
(* a gateway to its source clusters; a cluster is [nodes, edges], nodes a  *)
(* dict key -> [id, color, label] and edges a set of <<id, id>>.           *)
(***************************************************************************)
\* re.sub(r'\s+', '', s) on the strings the model uses.
RemoveWhitespace(s) == CASE s = "80, 443" -> "80,443" [] OTHER -> s

\* utils.py 33-37
normalize_ports(port_field, any_value) ==
  IF port_field = "" THEN any_value
  ELSE IF RemoveWhitespace(strip(port_field)) = "" THEN any_value
  ELSE RemoveWhitespace(strip(port_field))

\* s.replace('<', '').replace('>', '') on the strings the model uses.
RemoveAngle(s) == CASE s = "<unknown>" -> "unknown" [] OTHER -> s

\* val.replace(' ', '').replace(',', '') on the strings the model uses.
RemoveSpacesCommas(s) ==
  CASE s = "80, 443" -> "80443" [] s = "80,443" -> "80443"
    [] s = "web servers" -> "webservers" [] s = "office lan" -> "officelan"
    [] OTHER -> s

\* [part.strip().lower() for part in val.split(',')] on the strings the model uses.
CommaParts(s) ==
  CASE s = "80, 443" -> <<"80", "443">> [] s = "80,443" -> <<"80", "443">>
    [] OTHER -> <<s>>

\* get_alias_details returning None.
NoAliasInfo ==
  [found |-> FALSE, info |-> [name |-> "", type |-> "", content |-> "", description |-> ""]]

\* utils.py 113-126: the three lookups, for val, val_clean and the parts of val.
LookupAlias(val, val_clean, parts, details) ==
  IF val \in DOMAIN details THEN [found |-> TRUE, info |-> details[val]]
  ELSE IF val_clean \in DOMAIN details THEN [found |-> TRUE, info |-> details[val_clean]]
  ELSE IF Len(parts) > 1 /\ \E i \in 1..Len(parts) : parts[i] \in DOMAIN details
    THEN [found |-> TRUE,
          info |-> details[parts[CHOOSE i \in 1..Len(parts) :
                                   /\ parts[i] \in DOMAIN details
                                   /\ \A j \in 1..(i - 1) : parts[j] \notin DOMAIN details]]]
  ELSE NoAliasInfo

\* utils.py 112, 117, 122-123: val, val_clean and the comma-separated parts.
LookupAliasVal(val, details) ==
  LookupAlias(val, RemoveSpacesCommas(val), CommaParts(val), details)

\* utils.py 108-126: [found, info], found FALSE standing for None.
get_alias_details(value, details) ==
  IF value = "" THEN NoAliasInfo ELSE LookupAliasVal(strip(lower(value)), details)

\* utils.py 136-151: " ".join(parts) for the alias found.
AliasLabel(info) ==
  info.name
  \o (IF info.type # "" THEN " [" \o info.type \o "]" ELSE "")
  \o (IF info.content # "" THEN " (" \o info.content \o ")" ELSE "")
  \o (IF info.description # "" /\ info.description # info.name
        THEN " - " \o info.description ELSE "")

\* utils.py 131-153, given what get_alias_details returned.
FormatWith(value, default_label, alias_info) ==
  IF value # "" /\ alias_info.found THEN AliasLabel(alias_info.info)
  ELSE IF default_label # "" THEN default_label
  ELSE value

\* utils.py 129-153
format_alias_label(value, default_label, details) ==
  FormatWith(value, default_label, get_alias_details(value, details))

\* get_node adding the counter to every key: no node is ever shared.
get_node_unique(st, key, label, color, force_unique) ==
  [nodes |-> ((key \o "__" \o IntStr(st.next_id)) :>
                [id |-> "node" \o IntStr(st.next_id), color |-> color,
                 label |-> IF label # "" THEN label ELSE key])
             @@ st.nodes,
   next_id |-> st.next_id + 1,
   id |-> "node" \o IntStr(st.next_id)]

\* get_node ignoring force_unique: a node is shared whenever the key is known.
get_node_shared(st, key, label, color, force_unique) ==
  IF key \in DOMAIN st.nodes
    THEN [nodes |-> st.nodes, next_id |-> st.next_id, id |-> st.nodes[key].id]
    ELSE [nodes |-> (key :> [id |-> "node" \o IntStr(st.next_id), color |-> color,
                             label |-> IF label # "" THEN label ELSE key])
                    @@ st.nodes,
          next_id |-> st.next_id + 1,
          id |-> "node" \o IntStr(st.next_id)]

\* get_node with a counter that is not advanced when a node is created.
get_node_stale_counter(st, key, label, color, force_unique) ==
  LET actual_key == IF force_unique THEN key \o "__" \o IntStr(st.next_id) ELSE key
  IN  IF actual_key \in DOMAIN st.nodes
        THEN [nodes |-> st.nodes, next_id |-> st.next_id, id |-> st.nodes[actual_key].id]
        ELSE [nodes |-> (actual_key :> [id |-> "node" \o IntStr(st.next_id),
                                        color |-> color,
                                        label |-> IF label # "" THEN label ELSE key])
                        @@ st.nodes,
              next_id |-> st.next_id,
              id |-> "node" \o IntStr(st.next_id)]

\* graph_generator.py 68-75: st is [nodes, next_id]; the result carries the
\* updated pair and the node id returned.  label "" stands for label=None.
get_node(st, key, label, color, force_unique) ==
  LET actual_key == IF force_unique THEN key \o "__" \o IntStr(st.next_id) ELSE key
  IN  IF actual_key \in DOMAIN st.nodes
        THEN [nodes |-> st.nodes, next_id |-> st.next_id, id |-> st.nodes[actual_key].id]
        ELSE [nodes |-> (actual_key :> [id |-> "node" \o IntStr(st.next_id),
                                        color |-> color,
                                        label |-> IF label # "" THEN label ELSE key])
                        @@ st.nodes,
              next_id |-> st.next_id + 1,
              id |-> "node" \o IntStr(st.next_id)]

\* graph_generator.py 77-79, "" standing for None.
get_action_color(action) ==
  IF action = "PASS" THEN "#a3f7a3"
  ELSE IF action = "BLOCK" \/ action = "REJECT" THEN "#f7a3a3" ELSE ""

\* get_disabled_color colouring no node.
get_disabled_color_none(disabled) == ""

\* graph_generator.py 81-83, "" standing for None.
get_disabled_color(disabled) == IF disabled = "True" THEN "#ffcc00" ELSE ""

\* proto_key without the action: f"{protocol}"
ProtoKeyWithoutAction(protocol, action) == protocol

\* graph_generator.py 141: proto_key
ProtoKey(protocol, action) == protocol \o "|" \o action

\* graph_generator.py 143: port_key
PortKey(ports, proto_key) == ports \o "|" \o proto_key

\* graph_generator.py 146: is_floating
IsFloating(gateway) ==
  \E i \in 1..Len(FLOATING_RULES_LABELS) : Contains(gateway, FLOATING_RULES_LABELS[i])

\* graph_generator.py 89-105: the fields read from one CSV row.
RowFields(row) ==
  [floating |-> strip(row.floating),
   source |-> strip(row.source),
   gateway |-> IF strip(row.floating) \notin {"True", "1"}
                 THEN strip(row.gateway) ELSE "Floating-rules",
   action |-> upper(strip(row.action)),
   protocol |-> IF strip(row.protocol) # "" THEN strip(row.protocol) ELSE ANY_VALUE,
   ports |-> normalize_ports(row.port, ANY_VALUE),
   destination |-> strip(row.destination),
   comment |-> strip(row.comment),
   disabled |-> strip(row.disabled)]

\* graph_generator.py 107-111: str(x).replace('<', '').replace('>', '') if x
\* else the substitute.
CleanOr(x, substitute) == IF x # "" THEN RemoveAngle(x) ELSE substitute

\* graph_generator.py 124-127: destination_label
DestinationLabel(destination_formatted, comment_clean, disabled) ==
  IF disabled = "True"
    THEN (IF comment_clean # ""
            THEN destination_formatted \o " | " \o comment_clean \o " | " \o DISABLED_LABEL
            ELSE "VLAN | " \o destination_formatted \o " | " \o DISABLED_LABEL)
    ELSE (IF comment_clean # ""
            THEN destination_formatted \o " | " \o comment_clean
            ELSE "VLAN | " \o destination_formatted)

\* "<kind> | <text>", the unknown label standing in for an empty text (118-120).
KindLabel(kind, text) ==
  IF text # "" THEN kind \o " | " \o text ELSE kind \o " | " \o UNKNOWN_LABEL

\* graph_generator.py 107-127, 141-143: the keys and labels of a row with
\* fields f.
FieldLabels(f, details) ==
  [gateway |-> f.gateway,
   source |-> f.source,
   action |-> f.action,
   disabled |-> f.disabled,
   source_label |->
     KindLabel("SOURCE",
               format_alias_label(f.source, CleanOr(f.source, UNKNOWN_LABEL), details)),
   gateway_label |-> KindLabel("GATEWAY", CleanOr(f.gateway, UNKNOWN_LABEL)),
   action_label |-> KindLabel("ACTION", CleanOr(f.action, UNKNOWN_LABEL)),
   proto_key |-> ProtoKey(f.protocol, f.action),
   proto_label |-> "PROTOCOL | " \o f.protocol,
   port_key |-> PortKey(f.ports, ProtoKey(f.protocol, f.action)),
   port_label |-> "PORT | " \o format_alias_label(f.ports, f.ports, details),
   destination_label |->
     DestinationLabel(
       format_alias_label(f.destination, CleanOr(f.destination, UNKNOWN_LABEL), details),
       CleanOr(f.comment, ""), f.disabled)]

\* graph_generator.py 89-127: the fields and labels read from one CSV row.
RowLabels(row, details) == FieldLabels(RowFields(row), details)

\* The get_node calls of one row, in order: st is [nodes, next_id, ids], ids
\* the node ids returned so far; a call is [key, label, color, force_unique].
RECURSIVE GetNodes(_, _)
GetNodes(st, calls) ==
  IF calls = <<>> THEN st
  ELSE LET c == calls[1]
           got == get_node(st, c.key, c.label, c.color, c.force_unique)
       IN  GetNodes([nodes |-> got.nodes, next_id |-> got.next_id,
                     ids |-> Append(st.ids, got.id)], Tail(calls))

\* graph_generator.py 138-149: the six get_node calls of a row.
NodeCalls(r) ==
  <<[key |-> r.source_label, label |-> "", color |-> "", force_unique |-> FALSE],
    [key |-> r.gateway_label, label |-> "", color |-> "", force_unique |-> FALSE],
    [key |-> r.action_label, label |-> "", color |-> get_action_color(r.action),
     force_unique |-> FALSE],
    [key |-> r.proto_key, label |-> r.proto_label, color |-> "", force_unique |-> FALSE],
    [key |-> r.port_key, label |-> r.port_label, color |-> "", force_unique |-> FALSE],
    [key |-> r.destination_label, label |-> "", color |-> get_disabled_color(r.disabled),
     force_unique |-> ~IsFloating(r.gateway)]>>

\* graph_generator.py 152-153: source -> gateway -> action -> protocol -> port
\* -> destination.
RowEdges(ids) == {<<ids[i], ids[i + 1]>> : i \in 1..(Len(ids) - 1)}

\* graph_generator.py 130-154: the cluster of the row after its nodes and
\* edges are added; st is [nodes, edges, next_id].
AddRow(st, r) ==
  LET got == GetNodes([nodes |-> st.nodes, next_id |-> st.next_id, ids |-> <<>>],
                      NodeCalls(r))
  IN  [nodes |-> got.nodes,
       edges |-> st.edges \cup RowEdges(got.ids),
       next_id |-> got.next_id]

(***************************************************************************)
(* The firewall: what the API can answer.  Bounds of the model.            *)
(***************************************************************************)
MaxRules == 2      \* rules in one rules answer
MaxAliases == 1    \* aliases in one alias answer
MaxIfaces == 1     \* interfaces in one interfaces answer
MaxRuns == 2       \* runs of main() in one behaviour
MaxRows == 2       \* rows of the CSV file generate_graphs reads

SeqsUpTo(pool, n) == UNION {[1..k -> pool] : k \in 0..n}
Responses(pool, n) ==
  {Ok(q) : q \in SeqsUpTo(pool, n)} \cup {Failed(k) : k \in FailureKinds}

PfRule(tracker, id, interface, source, type, protocol, port, destination, descr, disabled, floating) ==
  [tracker |-> tracker, id |-> id, sequence |-> Absent, interface |-> interface,
   source |-> source, type |-> type, protocol |-> protocol,
   destination_port |-> port, destination |-> destination, descr |-> descr,
   disabled |-> disabled, floating |-> floating]

\* pfSense rules: an ordinary rule; the same tracker again with other content,
\* a floating rule;
\* a rule identified by sequence+interface only (no tracker, id 0), without
\* protocol, port and description; a record with no identifying field at all.
PfRulePool ==
  {PfRule(I(100), I(0), S("lan"), S("lan"), S("pass"), S("tcp"), S("443"),
          S("WebSrv"), S("Allow web"), B(FALSE), B(FALSE)),
   PfRule(I(100), I(1), S("lan"), S("lan"), S("pass"), S("tcp"), S("8443"),
          S("WebSrv"), S(""), B(FALSE), B(TRUE)),
   PfRule(Absent, I(0), S("WAN"), S("any"), S("block"), Null, Null,
          S("lan"), S(""), B(TRUE), Absent),
   PfRule(Absent, Absent, Absent, Absent, S("pass"), Absent, Absent,
          Absent, Absent, Absent, Absent)}

Sub(network, address, any, port) ==
  D([network |-> network, address |-> address, any |-> any, port |-> port])

OpnRule(uuid, sequence, interface, source, destination, action, protocol, description) ==
  [uuid |-> uuid, sequence |-> sequence, interface |-> interface,
   source |-> source, source_net |-> Absent, destination |-> destination,
   destination_net |-> Absent, destination_port |-> Absent,
   action |-> action, protocol |-> protocol, description |-> description]

\* OPNSense rules, in the same four shapes.
OpnRulePool ==
  {OpnRule(S("u1"), S("1"), S("lan"), Sub(S("lan"), Absent, Absent, Absent),
           Sub(Absent, S("WebSrv"), Absent, S("443")), S("pass"), S("TCP"), S("Allow web")),
   OpnRule(S("u1"), S("2"), S("lan"), Sub(S("lan"), Absent, Absent, Absent),
           Sub(Absent, S("WebSrv"), Absent, S("8443")), S("pass"), S("TCP"), S("")),
   OpnRule(Absent, S("3"), Absent, Absent,
           Sub(Absent, Absent, S("1"), Absent), S("block"), Absent, S("")),
   OpnRule(Absent, Absent, Absent, Absent, Absent, S("pass"), Absent, Absent)}

RulePool(gateway_type) == IF gateway_type = "pfsense" THEN PfRulePool ELSE OpnRulePool

\* pfSense aliases [name, type, address, descr]: a host alias, a port alias, a
\* network alias named like an interface, an alias of another kind.
PfAliasPool ==
  {[name |-> "WebSrv", type |-> "host", address |-> <<"10.0.0.5">>, descr |-> "Web servers"],
   [name |-> "HTTPS", type |-> "port", address |-> <<"443", "8443">>, descr |-> ""],
   [name |-> "lan", type |-> "network", address |-> <<"10.0.0.0/24">>, descr |-> "LanNet"],
   [name |-> "blocklist", type |-> "url", address |-> <<>>, descr |-> "Feed"]}

\* OPNSense aliases [enabled, name, type, content, description]; type is the
\* key of the type map whose entry has selected = 1.
OpnAliasPool ==
  {[enabled |-> "1", name |-> "WebSrv", type |-> "host", content |-> <<"10.0.0.5">>,
    description |-> "Web servers"],
   [enabled |-> "1", name |-> "HTTPS", type |-> "port", content |-> <<"443", "8443">>,
    description |-> ""],
   [enabled |-> "1", name |-> "lan", type |-> "network", content |-> <<"10.0.0.0/24">>,
    description |-> "LanNet"],
   [enabled |-> "0", name |-> "old", type |-> "host", content |-> <<"10.9.9.9">>,
    description |-> "Retired"],
   [enabled |-> "1", name |-> "blocklist", type |-> "url", content |-> <<>>,
    description |-> "Feed"]}

AliasPool(gateway_type) == IF gateway_type = "pfsense" THEN PfAliasPool ELSE OpnAliasPool

\* pfSense interfaces [id, descr, enable].
PfIfacePool ==
  {[id |-> "lan", descr |-> "Office LAN", enable |-> TRUE],
   [id |-> "WAN", descr |-> "", enable |-> TRUE],
   [id |-> "opt1", descr |-> "DMZ", enable |-> FALSE],
   [id |-> "lo0", descr |-> "", enable |-> TRUE]}

\* OPNSense interface rows [identifier, description, cfgdescr, cfgif, enabled].
OpnIfacePool ==
  {[identifier |-> "lan", description |-> "Office LAN", cfgdescr |-> "", cfgif |-> "em0",
    enabled |-> TRUE],
   [identifier |-> "wan", description |-> "", cfgdescr |-> "", cfgif |-> "em1",
    enabled |-> TRUE],
   [identifier |-> "opt1", description |-> "", cfgdescr |-> "DMZ", cfgif |-> "em2",
    enabled |-> FALSE],
   [identifier |-> "lo0", description |-> "", cfgdescr |-> "", cfgif |-> "lo0",
    enabled |-> TRUE]}

IfacePool(gateway_type) == IF gateway_type = "pfsense" THEN PfIfacePool ELSE OpnIfacePool

\* Entries of the pfSense v1 interface endpoint [ifname].
PfLegacyIfacePool == {[ifname |-> "lan"], [ifname |-> "em0"], [ifname |-> "lo0"]}

\* config.INTERFACES
ConfiguredInterfaces == {<<>>, <<"lan">>}

(***************************************************************************)
(* State of a run of main() and of the files it leaves behind.             *)
(***************************************************************************)
VARIABLES
  gateway_type,           \* config.gateway_type
  cfg_interfaces,         \* config.interfaces
  fw_rules,               \* the firewall: rules its rules endpoint can return
  fw_aliases,             \* the firewall: aliases its alias endpoint can return
  fw_ifaces,              \* the firewall: interfaces its interfaces endpoint can return
  fw_shapes,              \* the firewall: ill-shaped JSON bodies it can answer with
  fs_faults,              \* the file system: os.remove can fail
  run,                    \* number of the current run of main()
  pc,                     \* position of the run inside main()
  self_maps,              \* APIClient.interface_map, net_map, address_map, port_map, alias_details
  API_MAPS,               \* utils.API_INTERFACE_MAP, API_NET_MAP, API_ADDRESS_MAP, API_PORT_MAP, API_ALIAS_DETAILS
  interfaces,             \* candidates collected by _detect_*_interfaces
  interfaces_to_process,  \* the interface list fetch_rules queries
  ifidx,                  \* position of the per-interface loop
  all_entries,            \* fetch_rules: rules kept so far
  seen_rule_ids,          \* fetch_rules: identifiers seen so far
  requests,               \* sub-requests issued in this run, in order
  response,               \* the answer to the latest sub-request: [kind, data]
  csv_file,               \* config.csv_file: [exists, rows]
  md5_file,               \* md5sum.txt: the digest stored, NoDigest when there is no file
  png_files,              \* rendered images in the output directory
  pdf_files,              \* documents in the output directory
  regenerated,            \* this run took the "changes detected" branch
  made,                   \* images and documents this run produced
  fetched,                \* fetch_rules has returned in this run
  prev,                   \* the previous run: [fetched, entries, maps] and the digest it left
  csv_rows,               \* generate_graphs: the rows csv.DictReader yields
  interface_filter,       \* generate_graphs: interface_filter, "" for None
  row_idx,                \* generate_graphs: position of the row loop
  flows_by_gateway,       \* generate_graphs: gateway -> source -> [nodes, edges]
  next_id,                \* generate_graphs: the node counter
  rendered,               \* generate_graphs: [done, pngs] once the graphs are rendered
  pdf_pages,              \* generate_pdf: [done, pages] once the document is assembled
  arg_value,              \* map_value: value
  arg_field,              \* map_value: field, "none" for None
  mapped                  \* map_value: [done, value], the value returned

cfgVars == <<gateway_type, cfg_interfaces, fw_rules, fw_aliases, fw_ifaces, fw_shapes, fs_faults>>
mapVars == <<self_maps, API_MAPS>>
detVars == <<interfaces, interfaces_to_process, ifidx>>
entVars == <<all_entries, seen_rule_ids>>
logVars == <<requests, response>>
fsVars == <<csv_file, md5_file, png_files, pdf_files>>
outVars == <<regenerated, made, fetched>>
histVars == <<run, prev>>
graphVars == <<csv_rows, interface_filter, row_idx, flows_by_gateway, next_id, rendered,
               pdf_pages>>
argVars == <<arg_value, arg_field, mapped>>
vars == <<cfgVars, mapVars, detVars, entVars, logVars, fsVars, outVars, histVars, pc,
          graphVars, argVars>>

\* An environment without faults: every JSON body has the documented shape
\* and every deletion succeeds.
WellBehaved ==
  /\ fw_shapes = {}
  /\ fs_faults = FALSE

NoResponse == [kind |-> "none", data |-> <<>>]
NoFile == [exists |-> FALSE, rows |-> <<>>]
NothingMade == [pngs |-> {}, pdfs |-> {}]

\* generate_pdf has not been called.
NoPages == [done |-> FALSE, pages |-> {}]

\* No graph is being built.
NoGraph ==
  /\ csv_rows = <<>>
  /\ interface_filter = ""
  /\ row_idx = 1
  /\ flows_by_gateway = EmptyDict
  /\ next_id = 0
  /\ rendered = [done |-> FALSE, pngs |-> {}]
  /\ pdf_pages = NoPages

\* No call of map_value is being observed.
NoCall ==
  /\ arg_value = Null
  /\ arg_field = "none"
  /\ mapped = [done |-> FALSE, value |-> Null]

\* State of a fresh process, the module globals and the latest answer apart.
ProcessIdle ==
  /\ pc = "start"
  /\ self_maps = EmptyMaps
  /\ interfaces = {}
  /\ interfaces_to_process = <<>>
  /\ ifidx = 1
  /\ all_entries = <<>>
  /\ seen_rule_ids = {}
  /\ requests = <<>>
  /\ regenerated = FALSE
  /\ made = NothingMade
  /\ fetched = FALSE

\* State of a fresh process, the module globals apart.
ProcessLocal ==
  /\ ProcessIdle
  /\ response = NoResponse

\* State of a fresh process: Config(), APIClient(config) and the module globals.
ProcessStart ==
  /\ ProcessLocal
  /\ API_MAPS = EmptyMaps

\* The files and the history before the first run: no file of the program exists.
NoHistory ==
  /\ run = 1
  /\ prev = [fetched |-> FALSE, entries |-> <<>>, maps |-> EmptyMaps, md5 |-> NoDigest]
  /\ csv_file = NoFile
  /\ md5_file = NoDigest
  /\ png_files = {}
  /\ pdf_files = {}

\* Before the first run of main().
FirstStart ==
  /\ NoHistory
  /\ ProcessStart
  /\ NoGraph
  /\ NoCall

\* The program run repeatedly against a firewall that holds one rule, the
\* host alias and the LAN interface.
Init ==
  /\ gateway_type \in {"pfsense", "opnsense", "other"}
  /\ cfg_interfaces \in ConfiguredInterfaces
  /\ fw_rules \in {{r} : r \in RulePool(gateway_type)}
  /\ fw_aliases = {a \in AliasPool(gateway_type) : a.name = "WebSrv"}
  /\ fw_ifaces = IF gateway_type = "pfsense"
                 THEN {i \in PfIfacePool : i.id = "lan"}
                 ELSE IF gateway_type = "opnsense"
                      THEN {i \in OpnIfacePool : i.identifier = "lan"}
                      ELSE {}
  /\ WellBehaved
  /\ FirstStart

\* One run against a firewall that holds every rule and interface of the
\* pools, and the host alias.
InitRun ==
  /\ gateway_type \in {"pfsense", "opnsense", "other"}
  /\ cfg_interfaces \in ConfiguredInterfaces
  /\ fw_rules = RulePool(gateway_type)
  /\ fw_aliases = {a \in AliasPool(gateway_type) : a.name = "WebSrv"}
  /\ fw_ifaces = IfacePool(gateway_type)
  /\ WellBehaved
  /\ FirstStart

Known == gateway_type \in {"pfsense", "opnsense"}

\* The answers an endpoint can give: the well-formed ones, the failures, and
\* the ill-shaped bodies of this firewall.
Answers(endpoint, pool, n) ==
  Responses(pool, n)
  \cup {Shaped("toplist", q) :
          q \in IF "toplist" \in fw_shapes THEN SeqsUpTo(pool, n) ELSE {}}
  \cup {Shaped(k, <<>>) :
          k \in (fw_shapes \ {"toplist"}) \cap ShapesOf(gateway_type, endpoint)}

\* update_api_maps leaving the module globals as they are.
update_api_maps_skipped(globals, maps) == globals

\* utils.py 97-105: the module globals after update_api_maps.
update_api_maps(globals, maps) == maps

\* api_client.py 141-195, 245-336: the alias request of fetch_aliases.
FetchAliasList ==
  /\ pc = "start"
  /\ Known
  /\ \E resp \in Answers("aliases", fw_aliases, MaxAliases) :
       /\ self_maps' = (IF gateway_type = "pfsense"
                          THEN FoldPfAlias(self_maps, Iterated(gateway_type, "aliases", resp))
                          ELSE FoldOpnAlias(self_maps, Iterated(gateway_type, "aliases", resp)))
       /\ response' = resp
       /\ pc' = IF Raises(gateway_type, "aliases", resp) THEN "AttributeError" ELSE "interfaces"
  /\ requests' = Append(requests, "aliases")
  /\ UNCHANGED <<cfgVars, API_MAPS, detVars, entVars, fsVars, outVars, histVars, graphVars, argVars>>

\* api_client.py 197-237, 338-386: the interface request of fetch_aliases,
\* then update_api_maps.
FetchInterfaceList ==
  /\ pc = "interfaces"
  /\ \E resp \in Answers("interfaces", fw_ifaces, MaxIfaces) :
       /\ self_maps' = (IF gateway_type = "pfsense"
                          THEN FoldPfIface(self_maps, Iterated(gateway_type, "interfaces", resp))
                          ELSE FoldOpnIface(self_maps, Iterated(gateway_type, "interfaces", resp)))
       /\ response' = resp
  /\ API_MAPS' = update_api_maps(API_MAPS, self_maps')
  /\ requests' = Append(requests, "interfaces")
  /\ pc' = "open"
  /\ UNCHANGED <<cfgVars, detVars, entVars, fsVars, outVars, histVars, graphVars, argVars>>

\* api_client.py 131-133: fetch_aliases with an unknown gateway type.
FetchAliasesUnknown ==
  /\ pc = "start"
  /\ ~Known
  /\ pc' = "open"
  /\ UNCHANGED <<cfgVars, mapVars, detVars, entVars, logVars, fsVars, outVars, histVars, graphVars, argVars>>

\* main.py 49-51: open the CSV file for writing and write the header.
OpenCsv ==
  /\ pc = "open"
  /\ csv_file' = [exists |-> TRUE, rows |-> <<>>]
  /\ pc' = IF Known THEN "resolve" ELSE "unknown"
  /\ UNCHANGED <<cfgVars, mapVars, detVars, entVars, logVars, md5_file, png_files,
                 pdf_files, outVars, histVars, graphVars, argVars>>

\* main.py 112-114: unknown gateway type, return.
UnknownGateway ==
  /\ pc = "unknown"
  /\ pc' = "done"
  /\ UNCHANGED <<cfgVars, mapVars, detVars, entVars, logVars, fsVars, outVars, histVars, graphVars, argVars>>

\* The interfaces detected although some are configured.
ResolveInterfacesDetectAlways ==
  /\ pc = "resolve"
  /\ interfaces_to_process' = <<>>
  /\ pc' = "detect_primary"
  /\ UNCHANGED <<cfgVars, mapVars, interfaces, ifidx, entVars, logVars, fsVars,
                 outVars, histVars, graphVars, argVars>>

\* The configured interfaces fetched without the global request before them.
ResolveInterfacesSkipGlobal ==
  /\ pc = "resolve"
  /\ IF cfg_interfaces # <<>>
       THEN /\ interfaces_to_process' = cfg_interfaces
            /\ pc' = "per_interface"
       ELSE /\ interfaces_to_process' = <<>>
            /\ pc' = "detect_primary"
  /\ UNCHANGED <<cfgVars, mapVars, interfaces, ifidx, entVars, logVars, fsVars,
                 outVars, histVars, graphVars, argVars>>

\* api_client.py 401-414, 514-527: configured interfaces win, else detect.
ResolveInterfaces ==
  /\ pc = "resolve"
  /\ IF cfg_interfaces # <<>>
       THEN /\ interfaces_to_process' = cfg_interfaces
            /\ pc' = "global"
       ELSE /\ interfaces_to_process' = <<>>
            /\ pc' = "detect_primary"
  /\ UNCHANGED <<cfgVars, mapVars, interfaces, ifidx, entVars, logVars, fsVars,
                 outVars, histVars, graphVars, argVars>>

\* api_client.py 625-667, 773-822: detection, the interfaces endpoint.
DetectPrimary ==
  /\ pc = "detect_primary"
  /\ \E resp \in Answers("detect_primary", fw_ifaces, MaxIfaces) :
       /\ interfaces' =
            (IF gateway_type = "pfsense"
               THEN FoldPfDetectPrimary(interfaces, Iterated(gateway_type, "detect_primary", resp))
               ELSE FoldOpnDetectPrimary(interfaces, Iterated(gateway_type, "detect_primary", resp)))
       /\ response' = resp
  /\ requests' = Append(requests, "detect_primary")
  /\ pc' = IF interfaces' # {} THEN "detect_done"
           ELSE IF gateway_type = "pfsense" THEN "detect_fallback" ELSE "detect_rules"
  /\ UNCHANGED <<cfgVars, mapVars, interfaces_to_process, ifidx, entVars, fsVars,
                 outVars, histVars, graphVars, argVars>>

\* The pfSense v1 endpoint followed by the scan of the rules whatever it found.
DetectFallbackThenScan ==
  /\ pc = "detect_fallback"
  /\ \E resp \in Answers("detect_fallback", PfLegacyIfacePool, MaxIfaces) :
       /\ interfaces' =
            FoldPfDetectFallback(interfaces, Iterated(gateway_type, "detect_fallback", resp))
       /\ response' = resp
  /\ requests' = Append(requests, "detect_fallback")
  /\ pc' = "detect_rules"
  /\ UNCHANGED <<cfgVars, mapVars, interfaces_to_process, ifidx, entVars, fsVars,
                 outVars, histVars, graphVars, argVars>>

\* api_client.py 669-695: detection, the pfSense v1 endpoint.
DetectFallback ==
  /\ pc = "detect_fallback"
  /\ \E resp \in Answers("detect_fallback", PfLegacyIfacePool, MaxIfaces) :
       /\ interfaces' =
            FoldPfDetectFallback(interfaces, Iterated(gateway_type, "detect_fallback", resp))
       /\ response' = resp
  /\ requests' = Append(requests, "detect_fallback")
  /\ pc' = IF interfaces' # {} THEN "detect_done" ELSE "detect_rules"
  /\ UNCHANGED <<cfgVars, mapVars, interfaces_to_process, ifidx, entVars, fsVars,
                 outVars, histVars, graphVars, argVars>>

\* api_client.py 697-739, 826-868: detection, scanning the rules.
DetectFromRules ==
  /\ pc = "detect_rules"
  /\ \E resp \in Answers("rules", fw_rules, MaxRules) :
       /\ interfaces' =
            FoldDetectRules(gateway_type, interfaces, Iterated(gateway_type, "rules", resp))
       /\ response' = resp
       /\ pc' = IF Raises(gateway_type, "rules", resp) THEN "AttributeError" ELSE "detect_done"
  /\ requests' = Append(requests, "detect_rules")
  /\ UNCHANGED <<cfgVars, mapVars, interfaces_to_process, ifidx, entVars, fsVars,
                 outVars, histVars, graphVars, argVars>>

\* api_client.py 741-764, 405-412: the filtered, sorted list detection returns.
DetectDone ==
  /\ pc = "detect_done"
  /\ interfaces_to_process' = ValidInterfaces(interfaces)
  /\ pc' = "global"
  /\ UNCHANGED <<cfgVars, mapVars, interfaces, ifidx, entVars, logVars, fsVars,
                 outVars, histVars, graphVars, argVars>>

\* A failed rules request that discards what the earlier requests collected.
CollectOrReset(gtype, acc, resp, q) ==
  IF resp.kind = "ok" THEN Dedup(gtype, acc, q) ELSE [entries |-> <<>>, seen |-> {}]

\* What a rules answer adds to [entries, seen]: nothing when the request
\* failed or the body did not decode.
Collect(gtype, acc, resp, q) ==
  IF MakeApiRequest(resp) /\ resp.kind = "ok" THEN Dedup(gtype, acc, q) ELSE acc

\* api_client.py 416-453, 529-567: the global rules request.
GlobalFetch ==
  /\ pc = "global"
  /\ \E resp \in Answers("rules", fw_rules, MaxRules) :
       LET acc == Collect(gateway_type, [entries |-> <<>>, seen |-> {}], resp,
                          Iterated(gateway_type, "rules", resp))
       IN  /\ all_entries' = acc.entries
           /\ seen_rule_ids' = acc.seen
           /\ response' = resp
           /\ pc' = IF Raises(gateway_type, "rules", resp)
                      THEN "AttributeError" ELSE "per_interface"
  /\ requests' = Append(requests, "global")
  /\ ifidx' = 1
  /\ UNCHANGED <<cfgVars, mapVars, interfaces, interfaces_to_process, fsVars,
                 outVars, histVars, graphVars, argVars>>

\* api_client.py 456-496, 570-603: one turn of the per-interface loop.
InterfaceFetch ==
  /\ pc = "per_interface"
  /\ ifidx <= Len(interfaces_to_process)
  /\ LET interface == interfaces_to_process[ifidx]
     IN  /\ \E resp \in Answers("rules", fw_rules, MaxRules) :
               LET raised == \/ Raises(gateway_type, "rules", resp)
                             \/ /\ gateway_type = "pfsense"
                                /\ FilterRaises(Iterated(gateway_type, "rules", resp))
                   entries == IF raised THEN <<>>
                              ELSE IF gateway_type = "pfsense"
                                THEN FilterByInterface(Iterated(gateway_type, "rules", resp),
                                                       interface)
                              ELSE Iterated(gateway_type, "rules", resp)
                   acc == Collect(gateway_type,
                                  [entries |-> all_entries, seen |-> seen_rule_ids],
                                  resp, entries)
               IN  /\ all_entries' = acc.entries
                   /\ seen_rule_ids' = acc.seen
                   /\ response' = resp
                   /\ pc' = IF raised THEN "AttributeError" ELSE pc
                   /\ ifidx' = IF raised THEN ifidx ELSE ifidx + 1
         /\ requests' = Append(requests, "rules:" \o interface)
  /\ UNCHANGED <<cfgVars, mapVars, interfaces, interfaces_to_process, fsVars,
                 outVars, histVars, graphVars, argVars>>

\* The rows main.py 60-71 / 88-111 write for the fetched entries.
CanonicalRows(gtype, entries, maps) ==
  [i \in 1..Len(entries) |->
     IF gtype = "pfsense" THEN NormalizePfsense(entries[i], maps)
                          ELSE NormalizeOpnsense(entries[i], maps)]

\* main.py 87-99: the entries written before the first one whose field
\* extraction raises; all of them when none does.
RECURSIVE RowsBeforeRaise(_)
RowsBeforeRaise(entries) ==
  IF entries = <<>> \/ OpnsenseRowRaises(entries[1]) THEN <<>>
  ELSE <<entries[1]>> \o RowsBeforeRaise(Tail(entries))

\* main.py 53-111: fetch_rules has returned; write one row per entry.  An
\* OPNSense run without entries returns here, inside the `with` block; an
\* exception raised by a row leaves the `with` block with the rows written so
\* far and ends the run.
WriteRows ==
  /\ pc = "per_interface"
  /\ ifidx > Len(interfaces_to_process)
  /\ fetched' = TRUE
  /\ IF gateway_type = "opnsense" /\ all_entries = <<>>
       THEN /\ pc' = "done"
            /\ UNCHANGED csv_file
       ELSE IF gateway_type = "opnsense" /\ RowsBeforeRaise(all_entries) # all_entries
       THEN /\ pc' = "AttributeError"
            /\ csv_file' = [exists |-> TRUE,
                            rows |-> CanonicalRows(gateway_type, RowsBeforeRaise(all_entries),
                                                   API_MAPS)]
       ELSE /\ pc' = "md5"
            /\ csv_file' = [exists |-> TRUE,
                            rows |-> CanonicalRows(gateway_type, all_entries, API_MAPS)]
  /\ UNCHANGED <<cfgVars, mapVars, detVars, entVars, logVars, md5_file, png_files,
                 pdf_files, regenerated, made, histVars, graphVars, argVars>>

\* The change test answering yes whatever the digests are.
ShouldRegenerateAlways(prev_md5, actual_md5) == TRUE

\* The change test answering yes only when no digest is stored.
ShouldRegenerateFirstOnly(prev_md5, actual_md5) == prev_md5 = NoDigest

\* main.py 127: the change test.
ShouldRegenerate(prev_md5, actual_md5) == prev_md5 # actual_md5

\* main.py 118-131, 167-168: compare the digests, store the new one on change.
ChangeDetect ==
  /\ pc = "md5"
  /\ LET prev_md5 == md5_file
         actual_md5 == calculate_md5(csv_file.rows)
     IN  IF ShouldRegenerate(prev_md5, actual_md5)
           THEN /\ md5_file' = actual_md5
                /\ regenerated' = TRUE
                /\ pc' = "generate"
           ELSE /\ UNCHANGED <<md5_file, regenerated>>
                /\ pc' = "cleanup"
  /\ UNCHANGED <<cfgVars, mapVars, detVars, entVars, logVars, csv_file, png_files,
                 pdf_files, made, fetched, histVars, graphVars, argVars>>

\* What can happen to the generation: it succeeds; g.render raises
\* (graph_generator.py 180, outside any try) before an image exists; or
\* generate_pdf fails, which it catches and logs (196, 255-256), so that the
\* images are rendered and no document is written.
GenerationOutcomes(a) ==
  {"ok"} \cup (IF fs_faults /\ a.pngs # {} THEN {"render_raises"} ELSE {})
         \cup (IF fs_faults /\ a.pdfs # {} THEN {"pdf_fails"} ELSE {})

\* main.py 132-145: generate_graphs and generate_by_interface.
Generate ==
  /\ pc = "generate"
  /\ \E outcome \in GenerationOutcomes(Artefacts(csv_file.rows, png_files)) :
       LET a == Artefacts(csv_file.rows, png_files)
       IN  IF outcome = "render_raises"
             THEN /\ UNCHANGED <<png_files, pdf_files, made>>
                  /\ pc' = "RenderError"
             ELSE /\ png_files' = png_files \cup a.pngs
                  /\ pdf_files' = IF outcome = "ok" THEN pdf_files \cup a.pdfs ELSE pdf_files
                  /\ made' = IF outcome = "ok" THEN a ELSE [pngs |-> a.pngs, pdfs |-> {}]
                  /\ pc' = "cleanup_png"
  /\ UNCHANGED <<cfgVars, mapVars, detVars, entVars, logVars, csv_file, md5_file,
                 regenerated, fetched, histVars, graphVars, argVars>>

\* main.py 147-157: delete the rendered images; a failing os.remove ends the
\* loop, is caught and logged, and leaves the images not yet deleted.
CleanupPng ==
  /\ pc = "cleanup_png"
  /\ png_files' \in (IF fs_faults THEN SUBSET png_files ELSE {{}})
  /\ pc' = "cleanup"
  /\ UNCHANGED <<cfgVars, mapVars, detVars, entVars, logVars, csv_file, md5_file,
                 pdf_files, outVars, histVars, graphVars, argVars>>

\* main.py 170-173: delete the temporary CSV file; os.remove is not inside a
\* try block, so its failure is an OSError that ends the run.
CleanupCsv ==
  /\ pc = "cleanup"
  /\ \E removed \in (IF fs_faults THEN BOOLEAN ELSE {TRUE}) :
       IF removed
         THEN /\ csv_file' = NoFile
              /\ pc' = "done"
         ELSE /\ UNCHANGED csv_file
              /\ pc' = "OSError"
  /\ UNCHANGED <<cfgVars, mapVars, detVars, entVars, logVars, md5_file, png_files,
                 pdf_files, outVars, histVars, graphVars, argVars>>

\* The program is started again: a new process, the files of the last run.
NextRun ==
  /\ pc = "done"
  /\ run < MaxRuns
  /\ run' = run + 1
  /\ prev' = [fetched |-> fetched, entries |-> all_entries, maps |-> API_MAPS,
              md5 |-> md5_file]
  /\ pc' = "start"
  /\ self_maps' = EmptyMaps
  /\ API_MAPS' = EmptyMaps
  /\ interfaces' = {}
  /\ interfaces_to_process' = <<>>
  /\ ifidx' = 1
  /\ all_entries' = <<>>
  /\ seen_rule_ids' = {}
  /\ requests' = <<>>
  /\ response' = NoResponse
  /\ regenerated' = FALSE
  /\ made' = NothingMade
  /\ fetched' = FALSE
  /\ UNCHANGED <<cfgVars, fsVars, graphVars, argVars>>

Next ==
  \/ FetchAliasList
  \/ FetchInterfaceList
  \/ FetchAliasesUnknown
  \/ OpenCsv
  \/ UnknownGateway
  \/ ResolveInterfaces
  \/ DetectPrimary
  \/ DetectFallback
  \/ DetectFromRules
  \/ DetectDone
  \/ GlobalFetch
  \/ InterfaceFetch
  \/ WriteRows
  \/ ChangeDetect
  \/ Generate
  \/ CleanupPng
  \/ CleanupCsv
  \/ NextRun

Spec == Init /\ [][Next]_vars

\* One run of main(): every step but the restart.
NextOneRun ==
  \/ FetchAliasList
  \/ FetchInterfaceList
  \/ FetchAliasesUnknown
  \/ OpenCsv
  \/ UnknownGateway
  \/ ResolveInterfaces
  \/ DetectPrimary
  \/ DetectFallback
  \/ DetectFromRules
  \/ DetectDone
  \/ GlobalFetch
  \/ InterfaceFetch
  \/ WriteRows
  \/ ChangeDetect
  \/ Generate
  \/ CleanupPng
  \/ CleanupCsv

SpecRun == InitRun /\ [][NextOneRun]_vars

\* Rules of a wrong shape, next to an ordinary one: a pfSense rule whose
\* interface is null, an OPNSense rule whose source is a string.
PfOddRulePool ==
  {PfRule(I(100), I(0), S("lan"), S("lan"), S("pass"), S("tcp"), S("443"),
          S("WebSrv"), S("Allow web"), B(FALSE), B(FALSE)),
   PfRule(I(7), I(7), Null, S("lan"), S("pass"), S("tcp"), S("22"),
          S("WebSrv"), S("No interface"), B(FALSE), B(FALSE))}

OpnOddRulePool ==
  {OpnRule(S("u1"), S("1"), S("lan"), Sub(S("lan"), Absent, Absent, Absent),
           Sub(Absent, S("WebSrv"), Absent, S("443")), S("pass"), S("TCP"), S("Allow web")),
   OpnRule(S("u7"), S("7"), S("lan"), S("any"),
           Sub(Absent, S("WebSrv"), Absent, S("22")), S("pass"), S("TCP"), S("Any source"))}

OddRulePool(gtype) ==
  IF gtype = "pfsense" THEN PfOddRulePool ELSE OpnOddRulePool

\* One run in an environment with faults: the firewall can answer with bodies
\* and rules of a wrong shape, and deletions can fail.
InitFaulty ==
  /\ gateway_type \in {"pfsense", "opnsense", "other"}
  /\ cfg_interfaces \in ConfiguredInterfaces
  /\ fw_rules = OddRulePool(gateway_type)
  /\ fw_aliases = {a \in AliasPool(gateway_type) : a.name = "WebSrv"}
  /\ fw_ifaces = IfacePool(gateway_type)
  /\ fw_shapes = ShapeKinds
  /\ fs_faults = TRUE
  /\ FirstStart

SpecFaulty == InitFaulty /\ [][NextOneRun]_vars

(***************************************************************************)
(* generate_graphs on its own: the row loop over a CSV file, then the      *)
(* rendering of one image per gateway.                                     *)
(***************************************************************************)
GraphRow(source, gateway, action, protocol, port, destination, floating) ==
  [source |-> source, gateway |-> gateway, action |-> action, protocol |-> protocol,
   port |-> port, destination |-> destination, comment |-> "", disabled |-> "False",
   floating |-> floating]

\* The row with a comment and a disabled flag.
Noted(row, comment, disabled) ==
  [row EXCEPT !.comment = comment, !.disabled = disabled]

\* Canonical rows of one source: an interface gateway, the same gateway on a
\* row flagged floating, a gateway labelled as floating rules; two actions,
\* two protocols, two ports; a plain destination, and one row whose
\* destination is an alias name; a disabled row without comment and an
\* enabled row with a comment.
GraphRowPool ==
  {GraphRow("LAN", gf[1], a, p, pt, "WEB", gf[2]) :
     gf \in {<<"GW1/wan", "False">>, <<"GW1/wan", "True">>,
             <<"GW1/Floating-rules", "False">>},
     a \in {"PASS", "BLOCK"}, p \in {"TCP", "UDP"}, pt \in {"443", "8443"}}
  \cup {GraphRow("LAN", "GW1/wan", "PASS", "TCP", "443", "WebSrv", "False")}
  \cup {Noted(GraphRow("LAN", "GW1/wan", "BLOCK", "TCP", "443", "WEB", "False"), "", "True"),
        Noted(GraphRow("LAN", "GW1/wan", "PASS", "TCP", "443", "WEB", "False"),
              "Allow web", "False")}

\* The alias tables generate_graphs can find in the module globals.
GraphMaps ==
  {EmptyMaps} \cup
  {FetchAliases("pfsense", Ok(<<a>>), Failed("timeout")) :
     a \in {x \in PfAliasPool : x.name = "WebSrv"}}

InitGraph ==
  /\ gateway_type = "pfsense"
  /\ cfg_interfaces = <<>>
  /\ fw_rules = {}
  /\ fw_aliases = {}
  /\ fw_ifaces = {}
  /\ WellBehaved
  /\ NoHistory
  /\ ProcessLocal
  /\ API_MAPS \in GraphMaps
  /\ NoCall
  /\ csv_rows \in SeqsUpTo(GraphRowPool, MaxRows)
  /\ interface_filter \in {"", "wan"}
  /\ row_idx = 1
  /\ flows_by_gateway = EmptyDict
  /\ next_id = 0
  /\ rendered = [done |-> FALSE, pngs |-> {}]
  /\ pdf_pages = NoPages

\* graph_generator.py 130-135: the cluster of gateway and source, created
\* empty when it is not there yet.
ClusterOf(flows, gateway, source) ==
  IF gateway \in DOMAIN flows /\ source \in DOMAIN flows[gateway]
    THEN flows[gateway][source]
    ELSE [nodes |-> EmptyDict, edges |-> {}]

\* flows_by_gateway[gateway][source] = cluster
PutCluster(flows, gateway, source, cluster) ==
  (gateway :> ((source :> cluster)
               @@ (IF gateway \in DOMAIN flows THEN flows[gateway] ELSE EmptyDict)))
  @@ flows

\* graph_generator.py 93-154: the row with labels r is skipped by the
\* interface filter or added to its cluster.
PlaceRow(r) ==
  IF interface_filter # "" /\ InterfaceOf(r.gateway) # interface_filter
    THEN UNCHANGED <<flows_by_gateway, next_id>>
    ELSE \E after \in {AddRow([nodes |-> ClusterOf(flows_by_gateway, r.gateway, r.source).nodes,
                               edges |-> ClusterOf(flows_by_gateway, r.gateway, r.source).edges,
                               next_id |-> next_id], r)} :
           /\ flows_by_gateway' =
                PutCluster(flows_by_gateway, r.gateway, r.source,
                           [nodes |-> after.nodes, edges |-> after.edges])
           /\ next_id' = after.next_id

\* graph_generator.py 88-154: one turn of the row loop.
ReadRow ==
  /\ row_idx <= Len(csv_rows)
  /\ PlaceRow(RowLabels(csv_rows[row_idx], API_MAPS.details))
  /\ row_idx' = row_idx + 1
  /\ UNCHANGED <<cfgVars, mapVars, detVars, entVars, logVars, fsVars, outVars, histVars,
                 pc, csv_rows, interface_filter, rendered, pdf_pages, argVars>>

\* graph_generator.py 157-189: one image per gateway of flows_by_gateway.
Render ==
  /\ row_idx > Len(csv_rows)
  /\ ~rendered.done
  /\ rendered' = [done |-> TRUE, pngs |-> PngNames(DOMAIN flows_by_gateway)]
  /\ UNCHANGED <<cfgVars, mapVars, detVars, entVars, logVars, fsVars, outVars, histVars,
                 pc, csv_rows, interface_filter, row_idx, flows_by_gateway, next_id,
                 pdf_pages, argVars>>

NextGraph ==
  \/ ReadRow
  \/ Render

SpecGraph == InitGraph /\ [][NextGraph]_vars

(***************************************************************************)
(* map_value on its own, against the tables one alias fetch leaves.        *)
(***************************************************************************)
\* Raw values of a rule field.
ValuePool ==
  {Null, S("lan"), S("LAN"), S("WebSrv"), S("websrv"), S("HTTPS"), S("https"),
   S("10.1.1.1"), S(""), L(<<"lan">>), L(<<"WebSrv", "lan">>), L(<<>>)}

FieldPool == {"source", "interface", "destination", "destination_port", "none"}

InitMap ==
  /\ gateway_type \in {"pfsense", "opnsense"}
  /\ cfg_interfaces = <<>>
  /\ fw_rules = {}
  /\ fw_aliases = AliasPool(gateway_type)
  /\ fw_ifaces = IfacePool(gateway_type)
  /\ WellBehaved
  /\ NoHistory
  /\ ProcessIdle
  /\ \E aliasResp \in Responses(fw_aliases, MaxAliases),
        ifaceResp \in Responses(fw_ifaces, MaxIfaces) :
       /\ API_MAPS = FetchAliases(gateway_type, aliasResp, ifaceResp)
       /\ response = aliasResp
  /\ NoGraph
  /\ arg_value \in ValuePool
  /\ arg_field \in FieldPool
  /\ mapped = [done |-> FALSE, value |-> Null]

\* utils.py 61-94: one call of map_value.
MapValue ==
  /\ ~mapped.done
  /\ mapped' = [done |-> TRUE, value |-> map_value(arg_value, arg_field, ANY_VALUE, API_MAPS)]
  /\ UNCHANGED <<cfgVars, mapVars, detVars, entVars, logVars, fsVars, outVars, histVars,
                 pc, graphVars, arg_value, arg_field>>

NextMap == MapValue

SpecMap == InitMap /\ [][NextMap]_vars

(***************************************************************************)
(* generate_pdf on its own: a directory of rendered images and one call.   *)
(***************************************************************************)
\* Gateways whose images the directory can hold: the interfaces LAN, WLAN,
\* wan and "Office LAN" of the gateway, and the floating rules.
PdfGatewayPool ==
  {GATEWAY_NAME \o "/" \o l : l \in {"LAN", "WLAN", "wan", "Office LAN"}}
  \cup {"Floating-rules"}

\* interface_filter of the call, "" for None.
PdfFilterPool == {"", "LAN", "WLAN", "wan", "Office LAN"}

InitPdf ==
  /\ gateway_type = "pfsense"
  /\ cfg_interfaces = <<>>
  /\ fw_rules = {}
  /\ fw_aliases = {}
  /\ fw_ifaces = {}
  /\ WellBehaved
  /\ run = 1
  /\ prev = [fetched |-> FALSE, entries |-> <<>>, maps |-> EmptyMaps, md5 |-> NoDigest]
  /\ csv_file = NoFile
  /\ md5_file = NoDigest
  /\ png_files \in SUBSET PngNames(PdfGatewayPool)
  /\ pdf_files = {}
  /\ ProcessStart
  /\ NoCall
  /\ csv_rows = <<>>
  /\ interface_filter \in PdfFilterPool
  /\ row_idx = 1
  /\ flows_by_gateway = EmptyDict
  /\ next_id = 0
  /\ rendered = [done |-> TRUE, pngs |-> {}]
  /\ pdf_pages = NoPages

\* graph_generator.py 194-256: one call of generate_pdf; the document is
\* written when an image is found for it.
GeneratePdf ==
  /\ ~pdf_pages.done
  /\ pdf_pages' = [done |-> TRUE, pages |-> PdfPages(png_files, interface_filter)]
  /\ pdf_files' = IF PdfPages(png_files, interface_filter) = {} THEN pdf_files
                  ELSE pdf_files \cup {IF interface_filter = "" THEN "ALL"
                                                                ELSE interface_filter}
  /\ UNCHANGED <<cfgVars, mapVars, detVars, entVars, logVars, csv_file, md5_file, png_files,
                 outVars, histVars, pc, csv_rows, interface_filter, row_idx,
                 flows_by_gateway, next_id, rendered, argVars>>

NextPdf == GeneratePdf

SpecPdf == InitPdf /\ [][NextPdf]_vars

(***************************************************************************)
(* Properties of generate_graphs, checked under SpecGraph.                 *)
(***************************************************************************)
\* The ids of the nodes of a cluster whose label is in the set.
NodeIds(cluster, labels) ==
  {cluster.nodes[k].id : k \in {x \in DOMAIN cluster.nodes : cluster.nodes[x].label \in labels}}

\* The row loop is over.
RowsRead == row_idx > Len(csv_rows)

\* The two rows of the end-to-end scenario.
ScenarioRows ==
  <<GraphRow("LAN", "GW1/wan", "PASS", "TCP", "443", "WEB", "False"),
    GraphRow("LAN", "GW1/wan", "PASS", "TCP", "8443", "WEB", "False")>>

\* The graph of the scenario: one gateway, one source cluster, its eight nodes.
ScenarioNodes ==
  /\ DOMAIN flows_by_gateway = {"GW1/wan"}
  /\ DOMAIN flows_by_gateway["GW1/wan"] = {"LAN"}
  /\ rendered.done => rendered.pngs = {"GW1_wan"}
  /\ LET c == flows_by_gateway["GW1/wan"]["LAN"]
     IN  /\ Cardinality(NodeIds(c, {"SOURCE | LAN"})) = 1
         /\ Cardinality(NodeIds(c, {"GATEWAY | GW1/wan"})) = 1
         /\ Cardinality(NodeIds(c, {"ACTION | PASS"})) = 1
         /\ Cardinality(NodeIds(c, {"PROTOCOL | TCP"})) = 1
         /\ Cardinality(NodeIds(c, {"PORT | 443"})) = 1
         /\ Cardinality(NodeIds(c, {"PORT | 8443"})) = 1
         /\ Cardinality(NodeIds(c, {"VLAN | WEB"})) = 2
         /\ Cardinality(DOMAIN c.nodes) = 8

\* C5 as stated: for the two scenario rows generate_graphs builds one graph
\* for GW1/wan with one source cluster LAN, one source, gateway, action and
\* protocol node, two port nodes, two destination nodes and 10 edges.
C5_ScenarioTenEdges ==
  (csv_rows = ScenarioRows /\ RowsRead) =>
    /\ ScenarioNodes
    /\ Cardinality(flows_by_gateway["GW1/wan"]["LAN"].edges) = 10

\* C5 amended: the same graph, with 7 distinct edges: the edges of a cluster
\* are a set, and the rows share source -> gateway -> action -> protocol.
C5_ScenarioSevenEdges ==
  (csv_rows = ScenarioRows /\ RowsRead) =>
    /\ ScenarioNodes
    /\ Cardinality(flows_by_gateway["GW1/wan"]["LAN"].edges) = 7

\* The scenario rows have been read and the graph rendered.
C5_Witness ==
  /\ csv_rows = ScenarioRows
  /\ RowsRead
  /\ rendered.done
  /\ Cardinality(flows_by_gateway["GW1/wan"]["LAN"].edges) = 7

\* Both rows of a two-row file were read into the same cluster.
PairInOneCluster ==
  /\ Len(csv_rows) = 2
  /\ RowsRead
  /\ RowFields(csv_rows[1]).gateway = RowFields(csv_rows[2]).gateway
  /\ RowFields(csv_rows[1]).source = RowFields(csv_rows[2]).source
  /\ \/ interface_filter = ""
     \/ InterfaceOf(RowFields(csv_rows[1]).gateway) = interface_filter

\* The cluster the first row was read into.
FirstCluster ==
  flows_by_gateway[RowFields(csv_rows[1]).gateway][RowFields(csv_rows[1]).source]

\* The rows of the pair carry the same destination label.
SameDestinationLabel ==
  RowLabels(csv_rows[1], API_MAPS.details).destination_label
    = RowLabels(csv_rows[2], API_MAPS.details).destination_label

\* The destination nodes of the pair's cluster that carry the first row's label.
DestinationNodes ==
  NodeIds(FirstCluster, {RowLabels(csv_rows[1], API_MAPS.details).destination_label})

\* C6: two rows of one source cluster with the same destination label give
\* two destination nodes under a gateway that is not the floating rules, and
\* one shared destination node under the floating-rules gateway.
C6_DestinationForceUnique ==
  (PairInOneCluster /\ SameDestinationLabel) =>
    /\ RowFields(csv_rows[1]).gateway = "GW1/wan" => Cardinality(DestinationNodes) = 2
    /\ RowFields(csv_rows[1]).gateway \in {"Floating-rules", "GW1/Floating-rules"}
         => Cardinality(DestinationNodes) = 1

\* Two rows with one destination label under GW1/wan: two destination nodes.
C6_Witness ==
  /\ PairInOneCluster
  /\ SameDestinationLabel
  /\ RowFields(csv_rows[1]).gateway = "GW1/wan"
  /\ Cardinality(DestinationNodes) = 2

\* The protocol nodes and the port nodes of the pair's cluster for row i.
ProtocolNodes(i) ==
  NodeIds(FirstCluster, {RowLabels(csv_rows[i], API_MAPS.details).proto_label})
PortNodes(i) ==
  NodeIds(FirstCluster, {RowLabels(csv_rows[i], API_MAPS.details).port_label})

SameProtocol == RowFields(csv_rows[1]).protocol = RowFields(csv_rows[2]).protocol
SameAction == RowFields(csv_rows[1]).action = RowFields(csv_rows[2]).action
SamePorts == RowFields(csv_rows[1]).ports = RowFields(csv_rows[2]).ports

\* C7: in one cluster, rows with the same (protocol, action) and different
\* ports have two port nodes under one protocol node; the same protocol under
\* different actions is two protocol nodes, and the same port under a
\* different protocol or action is two port nodes.
C7_NodeFactorization ==
  PairInOneCluster =>
    /\ (SameProtocol /\ SameAction /\ ~SamePorts) =>
         /\ Cardinality(ProtocolNodes(1)) = 1
         /\ Cardinality(PortNodes(1)) = 1
         /\ Cardinality(PortNodes(2)) = 1
         /\ PortNodes(1) # PortNodes(2)
         /\ \A pr \in ProtocolNodes(1), po \in PortNodes(1) \cup PortNodes(2) :
              <<pr, po>> \in FirstCluster.edges
    /\ (SameProtocol /\ ~SameAction) => Cardinality(ProtocolNodes(1)) = 2
    /\ (SamePorts /\ ~(SameProtocol /\ SameAction)) => Cardinality(PortNodes(1)) = 2
    /\ (SamePorts /\ SameProtocol /\ SameAction) =>
         /\ Cardinality(ProtocolNodes(1)) = 1
         /\ Cardinality(PortNodes(1)) = 1

\* Two rows of one cluster with the same protocol and action and two ports.
C7_Witness ==
  /\ PairInOneCluster
  /\ SameProtocol
  /\ SameAction
  /\ ~SamePorts
  /\ Cardinality(ProtocolNodes(1)) = 1
  /\ Cardinality(PortNodes(1) \cup PortNodes(2)) = 2

(***************************************************************************)
(* Properties of map_value, checked under SpecMap.                         *)
(***************************************************************************)
\* map_value was called for a destination given as a string.
DestinationMapped == mapped.done /\ arg_field = "destination" /\ arg_value.t = "str"

\* C8: a destination is lower-cased and looked up in the interface table,
\* then the network table, then the address table; the first hit gives the
\* label and the raw value is returned when none hits.
C8_DestinationPrecedence ==
  DestinationMapped =>
    LET key == lower(arg_value.v)
        inIface == key \in DOMAIN API_MAPS.iface
        inNet == key \in DOMAIN API_MAPS.net
        inAddr == key \in DOMAIN API_MAPS.addr
    IN  /\ inIface => mapped.value = S(API_MAPS.iface[key])
        /\ (~inIface /\ inNet) => mapped.value = S(API_MAPS.net[key])
        /\ (~inIface /\ ~inNet /\ inAddr) => mapped.value = S(API_MAPS.addr[key])
        /\ (~inIface /\ ~inNet /\ ~inAddr) => mapped.value = arg_value

\* "LAN" names both an interface and a network alias with another label, and
\* the interface label was returned.
C8_Witness ==
  /\ DestinationMapped
  /\ arg_value = S("LAN")
  /\ "lan" \in DOMAIN API_MAPS.iface
  /\ "lan" \in DOMAIN API_MAPS.net
  /\ API_MAPS.iface["lan"] # API_MAPS.net["lan"]
  /\ mapped.value = S(API_MAPS.iface["lan"])

(***************************************************************************)
(* Properties of one run of main(), checked under SpecRun.                 *)
(***************************************************************************)
\* The nine cells of a canonical row.
Cells(row) ==
  {row.source, row.gateway, row.action, row.protocol, row.port, row.destination,
   row.comment, row.disabled, row.floating}

\* C1: every row the normaliser writes has its 9 fields populated with a
\* resolved value or the sentinel, never with an empty string or a null-like
\* placeholder.
C1_AllFieldsPopulated ==
  \A i \in 1..Len(csv_file.rows) : Cells(csv_file.rows[i]) \cap {"", "None", "null"} = {}

\* The step is a rules request of fetch_rules: the global one or one turn of
\* the per-interface loop.
RulesRequest == pc = "global" \/ (pc = "per_interface" /\ ifidx' = ifidx + 1)

\* The rules the request of this step returned to the de-duplication loop.
Answered ==
  IF response'.kind # "ok" THEN <<>>
  ELSE IF pc = "per_interface" /\ gateway_type = "pfsense"
    THEN FilterByInterface(response'.data, interfaces_to_process[ifidx])
  ELSE response'.data

\* The identifiers of the rules of q that have one.
IdsOf(q) == {id \in {RuleId(gateway_type, q[i]) : i \in 1..Len(q)} : truthy(id)}

\* The first rule of q with the identifier.
FirstWithId(q, id) ==
  q[CHOOSE i \in 1..Len(q) :
      /\ RuleId(gateway_type, q[i]) = id
      /\ \A j \in 1..(i - 1) : RuleId(gateway_type, q[j]) # id]

\* C2: after every rules request, each identifier among the rules kept so far
\* and the rules just returned is carried by exactly one entry of the result,
\* the first rule seen with it; no two entries share an identifier.
C2_FirstSeenWins ==
  [][RulesRequest =>
       LET seenSoFar == (IF pc = "global" THEN <<>> ELSE all_entries) \o Answered
       IN  /\ \A id \in IdsOf(seenSoFar) :
                /\ Cardinality({i \in 1..Len(all_entries') :
                                  RuleId(gateway_type, all_entries'[i]) = id}) = 1
                /\ \E i \in 1..Len(all_entries') :
                     all_entries'[i] = FirstWithId(seenSoFar, id)
           /\ \A i, j \in 1..Len(all_entries') :
                i # j => RuleId(gateway_type, all_entries'[i])
                           # RuleId(gateway_type, all_entries'[j])]_vars

\* The per-interface request returned one rule whose identifier the global
\* request had already given to another rule: the result keeps the earlier one.
C2_Witness ==
  /\ pc = "per_interface"
  /\ ifidx = 2
  /\ response.kind = "ok"
  /\ Len(response.data) = 1
  /\ gateway_type = "pfsense" =>
       FilterByInterface(response.data, interfaces_to_process[1]) = response.data
  /\ truthy(RuleId(gateway_type, response.data[1]))
  /\ \A i \in 1..Len(all_entries) : all_entries[i] # response.data[1]
  /\ Cardinality({i \in 1..Len(all_entries) :
                    RuleId(gateway_type, all_entries[i])
                      = RuleId(gateway_type, response.data[1])}) = 1

\* C9: a sub-request that fails (timeout, connection error, non-2xx status,
\* undecodable body) adds nothing and removes nothing: the rules, the
\* identifiers, the tables and the detected interfaces collected so far are
\* kept, the request is not issued again, the run goes on, and the rows
\* written are those of the rules collected.
C9_FailedRequestOnlyEmpty ==
  [][/\ (requests' # requests /\ response'.kind \in FailureKinds) =>
          /\ all_entries' = all_entries
          /\ seen_rule_ids' = seen_rule_ids
          /\ self_maps' = self_maps
          /\ interfaces' = interfaces
          /\ requests' = Append(requests, requests'[Len(requests')])
          /\ \A i \in 1..Len(requests) : requests[i] # requests'[Len(requests')]
          /\ pc' # "done"
     /\ (pc' = "open" /\ pc = "interfaces") => API_MAPS' = self_maps'
     /\ (pc' = "md5" /\ pc # "md5") =>
          csv_file'.rows = CanonicalRows(gateway_type, all_entries, API_MAPS)
    ]_vars

\* The last per-interface request failed and the rows of the rules collected
\* before it were written.
C9_Witness ==
  /\ pc = "md5"
  /\ response.kind \in FailureKinds
  /\ Len(requests) >= 2
  /\ csv_file.rows # <<>>

(***************************************************************************)
(* Properties of consecutive runs, checked under Spec.                     *)
(***************************************************************************)
\* The digest of the rows the current run writes for its rules.
CurrentDigest == calculate_md5(CanonicalRows(gateway_type, all_entries, API_MAPS))

\* This run and the one before fetched the same rules.
SameRulesAsBefore == run > 1 /\ fetched /\ prev.fetched /\ all_entries = prev.entries

\* C3 as stated: when two consecutive runs fetch the same rules, the second
\* generates no graph and no document.
C3_UnchangedRulesNoGeneration ==
  SameRulesAsBefore => (~regenerated /\ made = NothingMade)

\* C3 amended: when two consecutive runs fetch the same rules and the same
\* alias and interface tables, the second generates no graph and no document.
C3_UnchangedRowsNoGeneration ==
  (SameRulesAsBefore /\ API_MAPS = prev.maps) => (~regenerated /\ made = NothingMade)

\* A second run with the rules and tables of the first, ended without
\* regeneration.
C3_Witness ==
  /\ SameRulesAsBefore
  /\ API_MAPS = prev.maps
  /\ all_entries # <<>>
  /\ pc = "done"
  /\ ~regenerated

\* The run reached the change test of main.py 118-131.
ChangeTested == fetched /\ ~(gateway_type = "opnsense" /\ all_entries = <<>>)

\* The stored digest is missing or differs from the digest of the current rows.
DigestChanged == prev.md5 = NoDigest \/ prev.md5 # CurrentDigest

\* C4 as stated: a run regenerates exactly when no digest is stored or the
\* stored one differs from the digest of the current rows, and the digest
\* file is written only by a run that regenerates.
C4_RegenerationExactly ==
  pc = "done" =>
    /\ regenerated <=> DigestChanged
    /\ regenerated => md5_file = CurrentDigest
    /\ ~regenerated => md5_file = prev.md5

\* C4 amended: a run that reaches the change test regenerates exactly when no
\* digest is stored or the stored one differs; a run that returns before the
\* test does not regenerate; the digest file is written only by a run that
\* regenerates.
C4_RegenerationWhenTested ==
  pc = "done" =>
    /\ regenerated <=> (ChangeTested /\ DigestChanged)
    /\ regenerated => md5_file = CurrentDigest
    /\ ~regenerated => md5_file = prev.md5

\* A second run that regenerated because the stored digest differed.
C4_Witness ==
  /\ run = 2
  /\ pc = "done"
  /\ regenerated
  /\ prev.md5 # NoDigest
  /\ md5_file # prev.md5

\* C10: a run of either vendor that fetched no rule makes no image and no
\* document, and goes on to its end.
C10_ZeroRulesNothingGenerated ==
  (Known /\ fetched /\ all_entries = <<>>) =>
    /\ made = NothingMade
    /\ pc # "done" => ENABLED Next

\* A pfSense run without rules that took the regeneration branch and ended.
C10_Witness ==
  /\ gateway_type = "pfsense"
  /\ fetched
  /\ all_entries = <<>>
  /\ regenerated
  /\ pc = "done"
  /\ made = NothingMade

(***************************************************************************)
(* Properties of the early exits and of the row written for a rule.        *)
(***************************************************************************)
\* C11: with an unknown gateway type the run leaves no file behind (CSV file,
\* digest, images, documents) and issues no request.
C11_UnknownVendorNoSideEffects ==
  ~Known =>
    /\ csv_file = NoFile
    /\ md5_file = NoDigest
    /\ png_files = {}
    /\ pdf_files = {}
    /\ requests = <<>>

\* The rows of the CSV file are those of all_entries, one per entry.
RowsWritten ==
  /\ pc \in {"md5", "generate", "cleanup_png", "cleanup"}
  /\ csv_file.exists
  /\ Len(csv_file.rows) = Len(all_entries)

\* The entry carries no value under the key: the key is missing or null.
NoIndicator(entry, key) == get(entry, key).t \in {"absent", "null"}

\* C12: a rule without a disabled indicator is written with DISABLED "False",
\* and a rule without a floating indicator with FLOATING "False", for both
\* vendors (an OPNSense rule is flagged floating by its missing interface).
C12_BooleansDefaultFalse ==
  RowsWritten =>
    \A i \in 1..Len(all_entries) :
      IF gateway_type = "pfsense"
        THEN /\ NoIndicator(all_entries[i], "disabled") => csv_file.rows[i].disabled = "False"
             /\ NoIndicator(all_entries[i], "floating") => csv_file.rows[i].floating = "False"
        ELSE /\ csv_file.rows[i].disabled = "False"
             /\ truthy(get(all_entries[i], "interface")) => csv_file.rows[i].floating = "False"

(***************************************************************************)
(* Destination labels of generate_graphs, checked under SpecGraph.         *)
(***************************************************************************)
\* Row i of the file was placed in a cluster (the interface filter kept it).
Placed(i) ==
  /\ i \in 1..Len(csv_rows)
  /\ i < row_idx
  /\ \/ interface_filter = ""
     \/ InterfaceOf(RowFields(csv_rows[i]).gateway) = interface_filter

\* The nodes of the cluster of row i, as [id, color, label] records.
NodesOfRow(i) ==
  LET c == flows_by_gateway[RowFields(csv_rows[i]).gateway][RowFields(csv_rows[i]).source]
  IN  {c.nodes[k] : k \in DOMAIN c.nodes}

\* The cluster of row i has a node with this label, and every node with this
\* label has this colour ("" for no colour).
Drawn(i, label, color) ==
  /\ \E n \in NodesOfRow(i) : n.label = label
  /\ \A n \in NodesOfRow(i) : n.label = label => n.color = color

C14_ShapeErrorsNeverRaise == pc # "AttributeError"

(***************************************************************************)
(* Order of the writes and reads of the alias tables, checked under Spec.  *)
(***************************************************************************)
\* The number of update_api_maps calls of the run: the call is the last
\* statement of the alias fetch, after its interfaces request.
RECURSIVE TableWrites(_)
TableWrites(reqs) ==
  IF reqs = <<>> THEN 0
  ELSE (IF reqs[1] = "interfaces" THEN 1 ELSE 0) + TableWrites(Tail(reqs))

\* The step in which the normaliser makes its lookups: fetch_rules has
\* returned and the rows are written.
NormaliserStep == pc = "per_interface" /\ ~fetched /\ fetched'

\* C15: the alias tables are written once in a run, by the step that ends
\* the alias and interface fetch, before the normaliser's lookups; the
\* lookups see the complete tables of the client, and within a run the tables
\* never change after that write.
C15_TablesWrittenOnceBeforeLookup ==
  [][/\ API_MAPS' # API_MAPS => (pc = "interfaces" \/ (pc = "done" /\ pc' = "start"))
     /\ TableWrites(requests') <= 1
     /\ NormaliserStep => /\ TableWrites(requests) = 1
                          /\ API_MAPS = self_maps
                          /\ API_MAPS' = API_MAPS]_vars

\* The rows of a second run were written from tables that hold the alias and
\* the interface fetched in that run.
C15_Witness ==
  /\ run = 2
  /\ pc = "md5"
  /\ TableWrites(requests) = 1
  /\ DOMAIN API_MAPS.net # {}
  /\ DOMAIN API_MAPS.iface # {}
  /\ API_MAPS = self_maps

(***************************************************************************)
(* Files left behind by a run.                                             *)
(***************************************************************************)
\* C16: at the end of every run, whichever path it took, the temporary CSV
\* file and the rendered images no longer exist (the digest file is the only
\* state carried to the next run).
C16_TemporaryFilesGone ==
  pc = "done" =>
    /\ csv_file = NoFile
    /\ png_files = {}

\* C17: every cleanup step is guarded: no run fails because a deletion of a
\* temporary image or of the temporary CSV file failed.
C17_CleanupNeverFailsRun == pc # "OSError"

(***************************************************************************)
(* The tables one alias fetch leaves, checked under SpecMap.               *)
(***************************************************************************)
\* The aliases of the answer to the alias request.
AliasesAnswered == {response.data[i] : i \in 1..Len(response.data)}

\* The names (keys) under which the alias tables and the detail map hold
\* something; the interface table is filled from the interfaces answer.
RetainedNames ==
  DOMAIN API_MAPS.details \cup DOMAIN API_MAPS.net \cup DOMAIN API_MAPS.addr
  \cup DOMAIN API_MAPS.port

SupportedKinds == {"host", "network", "port"}

\* An alias of the answer that the claim says is dropped: an OPNSense alias
\* that is not enabled, or an alias of another kind.
Unsupported(alias) ==
  \/ alias.type \notin SupportedKinds
  \/ gateway_type = "opnsense" /\ alias.enabled # "1"

ResolvedInterface(entry) ==
  LET interface == get(entry, "interface")
  IN  IF interface.t \in {"absent", "null"} THEN ANY_VALUE
      ELSE IF Has(API_MAPS.iface, lower(str(interface)))
        THEN API_MAPS.iface[lower(str(interface))]
      ELSE str(interface)

\* The rule is a floating rule: a pfSense rule says so in `floating`, an
\* OPNSense rule by having no interface.
FloatingRule(entry) ==
  IF gateway_type = "pfsense"
    THEN truthy(get(entry, "floating"))
    ELSE ~truthy(get(entry, "interface"))

OtherRequests ==
  {"aliases", "interfaces", "detect_primary", "detect_fallback", "detect_rules"}

\* The rule-collecting requests of the run, in the order they were issued.
RuleRequests == SelectSeq(requests, LAMBDA r : r \notin OtherRequests)

\* The request of the filtered fetch for one interface.
FilteredRequest(interface) == "rules:" \o interface

DetectionRequests == {"detect_primary", "detect_fallback", "detect_rules"}

\* The run has issued a request of the interface detection.
DetectionAttempted == \E i \in 1..Len(requests) : requests[i] \in DetectionRequests

\* The interface set of the run is resolved: the global fetch is next, or
\* issued, or fetch_rules has returned.
InterfacesResolved == pc \in {"global", "per_interface"} \/ fetched

\* C21: configured interfaces are the set queried and no detection request is
\* issued; without configured interfaces the detection is attempted and the
\* list it returns is the set queried; with an empty set, fetch_rules issues
\* the global request and no filtered one.
C21_InterfaceSetResolution ==
  /\ cfg_interfaces # <<>> => ~DetectionAttempted
  /\ InterfacesResolved =>
       /\ cfg_interfaces # <<>> => interfaces_to_process = cfg_interfaces
       /\ cfg_interfaces = <<>> =>
            /\ DetectionAttempted
            /\ interfaces_to_process = ValidInterfaces(interfaces)
  /\ fetched /\ interfaces_to_process = <<>> => RuleRequests = <<"global">>

\* fetch_rules has returned after a detection that found no interface and one
\* global request.
C21_Witness ==
  /\ fetched
  /\ cfg_interfaces = <<>>
  /\ DetectionAttempted
  /\ interfaces_to_process = <<>>
  /\ RuleRequests = <<"global">>
  /\ all_entries # <<>>

(***************************************************************************)
(* The order of the detection methods, checked under SpecRun.              *)
(***************************************************************************)
\* The methods of the interface detection, in the order of the code.
DetectionOrder ==
  IF gateway_type = "pfsense"
    THEN <<"detect_primary", "detect_fallback", "detect_rules">>
    ELSE <<"detect_primary", "detect_rules">>

\* The detection requests of the run, in the order they were issued.
DetectionLog == SelectSeq(requests, LAMBDA r : r \in DetectionRequests)

\* C22: the detection requests are issued in the order interfaces endpoint,
\* legacy endpoint (pfSense only), scan of the rules; a method after the first
\* is tried only while the set of candidates is empty, so the detection stops
\* at the first method that yields a candidate, and it stops there also when
\* the final wan/lan/opt filter rejects every candidate found.
C22_DetectionStopsAtFirstYield ==
  [][(DetectionLog' # DetectionLog) =>
       /\ Len(DetectionLog') <= Len(DetectionOrder)
       /\ DetectionLog' = SubSeq(DetectionOrder, 1, Len(DetectionLog'))
       /\ interfaces = {}
       /\ (interfaces' # {} => pc' = "detect_done")]_vars

\* The pfSense legacy endpoint yielded a candidate that the final filter
\* rejects: the rules were not scanned and no interface is queried.
C22_Witness ==
  /\ gateway_type = "pfsense"
  /\ pc = "global"
  /\ DetectionLog = <<"detect_primary", "detect_fallback">>
  /\ interfaces # {}
  /\ ValidInterfaces(interfaces) = <<>>
  /\ interfaces_to_process = <<>>

(***************************************************************************)
(* The fingerprint and the artefacts it stands for, checked under          *)
(* SpecFaulty.                                                             *)
(***************************************************************************)
\* The run is over: main() has returned or an exception has ended it.
RunOver == pc \in {"done", "AttributeError", "OSError", "RenderError"}

\* The rows whose digest md5sum.txt holds (the digest of the model is the
\* content it was taken of).
FingerprintRows == md5_file[1].rows

\* C23: when a run is over and md5sum.txt holds the digest of the rows R, the
\* documents of R exist; a run that wrote the digest and failed to generate
\* would leave the digest of R without them, and the next run with R would
\* find the digest equal and generate nothing.
C23_FingerprintImpliesGenerated ==
  RunOver /\ md5_file # NoDigest =>
    Artefacts(FingerprintRows, {}).pdfs \subseteq pdf_files

(***************************************************************************)
(* A run without rules, checked under Spec.                                *)
(***************************************************************************)
\* C24: a run in which fetch_rules returned no rule leaves md5sum.txt as the
\* run before left it and produces no image and no document, for pfSense as
\* for OPNSense.
C24_ZeroRulesKeepFingerprint ==
  fetched /\ all_entries = <<>> =>
    /\ md5_file = prev.md5
    /\ made = NothingMade

(***************************************************************************)
(* Rules kept by fetch_rules, checked under SpecRun.                       *)
(***************************************************************************)
\* The latest request collected rules and was answered with a list of them.
RulesAnswered ==
  /\ pc = "per_interface"
  /\ requests # <<>>
  /\ requests[Len(requests)] \notin OtherRequests
  /\ response.kind = "ok"

\* C25: every record of a rules answer is in the result of fetch_rules or has
\* the identifier of a record of the result, a record without any identifying
\* field is in the result, and a record is taken for a duplicate only of
\* itself.
C25_NoRuleLost ==
  RulesAnswered =>
    \A i \in 1..Len(response.data) :
      LET record == response.data[i]
      IN  /\ \/ \E j \in 1..Len(all_entries) : all_entries[j] = record
             \/ \E j \in 1..Len(all_entries) :
                  RuleId(gateway_type, all_entries[j]) = RuleId(gateway_type, record)
          /\ ~truthy(RuleId(gateway_type, record)) =>
               \E j \in 1..Len(all_entries) : all_entries[j] = record
          /\ \A j \in 1..Len(all_entries) :
               RuleId(gateway_type, all_entries[j]) = RuleId(gateway_type, record)
                 => all_entries[j] = record

(***************************************************************************)
(* Rows of a per-interface graph, checked under SpecGraph.                 *)
(***************************************************************************)
\* The interface generate_by_interface groups row i under.
GroupOf(i) == InterfaceOf(strip(csv_rows[i].gateway))

\* Row i has been read and its cluster holds nodes.
RowDrawn(i) ==
  LET r == RowLabels(csv_rows[i], API_MAPS.details)
  IN  /\ i < row_idx
      /\ r.gateway \in DOMAIN flows_by_gateway
      /\ r.source \in DOMAIN flows_by_gateway[r.gateway]
      /\ DOMAIN flows_by_gateway[r.gateway][r.source].nodes # {}

\* C26: in the generate_graphs call for an interface, every row that
\* generate_by_interface groups under that interface is drawn once it is
\* read, a pfSense row whose FLOATING cell is "True" included.
C26_GroupedRowsDrawn ==
  \A i \in 1..Len(csv_rows) :
    (interface_filter # "" /\ i < row_idx /\ GroupOf(i) = interface_filter)
      => RowDrawn(i)

(***************************************************************************)
(* The labels of the graph and the alias tables, checked under SpecGraph.  *)
(***************************************************************************)
\* C27: the graph is a function of the canonical rows alone: the destination
\* node drawn for a row carries the label that the same row gets under any
\* other content of the alias tables, so a run with the same rows would draw
\* the same graph.
C27_GraphFunctionOfRows ==
  \A i \in 1..Len(csv_rows) :
    Placed(i) =>
      \A other \in GraphMaps :
        \E n \in NodesOfRow(i) :
          n.label = RowLabels(csv_rows[i], other.details).destination_label

(***************************************************************************)
(* Port aliases and map_value, checked under SpecMap.                      *)
(***************************************************************************)
\* The alias of the answer is a port alias the fetch retains.
RetainedPortAlias(alias) ==
  /\ alias.type = "port"
  /\ ~Unsupported(alias)
  /\ Has(API_MAPS.port, lower(alias.name))

\* C28: map_value of the name of a retained port alias, written as the
\* firewall reports it, for the field destination_port is the label the port
\* table holds for the alias.
C28_PortAliasResolvable ==
  (mapped.done /\ arg_field = "destination_port" /\ response.kind = "ok") =>
    \A alias \in AliasesAnswered :
      (RetainedPortAlias(alias) /\ arg_value = S(alias.name))
        => mapped.value = S(API_MAPS.port[lower(alias.name)])

(***************************************************************************)
(* The pages of a per-interface document, checked under SpecPdf.           *)
(***************************************************************************)
\* The image is the graph of a gateway of the interface.
ImageOfInterface(png, interface) ==
  \E g \in PdfGatewayPool : InterfaceOf(g) = interface /\ png = safe_filename(g)

\* C29: the document generate_pdf assembles for an interface holds pages only
\* for images of that interface, not for an image whose name merely contains
\* the name of the interface.
C29_DocumentPagesOfInterface ==
  (pdf_pages.done /\ interface_filter # "") =>
    \A png \in pdf_pages.pages : ImageOfInterface(png, interface_filter)

(***************************************************************************)
(* Node ids of one generate_graphs call, checked under SpecGraph.          *)
(***************************************************************************)
\* The nodes of the graph: <<gateway, source, key>> of every cluster.
AllNodes ==
  UNION {UNION {{<<g, s, k>> : k \in DOMAIN flows_by_gateway[g][s].nodes} :
                  s \in DOMAIN flows_by_gateway[g]} :
           g \in DOMAIN flows_by_gateway}

\* The id of a node of the graph.
IdOf(t) == flows_by_gateway[t[1]][t[2]].nodes[t[3]].id

\* The ids in use.
AllIds == {IdOf(t) : t \in AllNodes}

\* The ids are node0 .. node<next_id - 1>, one node each, whatever the cluster.
IdsUnique ==
  /\ \A t \in AllNodes : \E k \in 0..(next_id - 1) : IdOf(t) = "node" \o IntStr(k)
  /\ \A t, u \in AllNodes : t # u => IdOf(t) # IdOf(u)
  /\ Cardinality(AllNodes) = next_id

\* The row read in this step is drawn under a gateway that is not the
\* floating rules.
ForcedRowPlaced ==
  /\ row_idx' = row_idx + 1
  /\ flows_by_gateway' # flows_by_gateway \/ next_id' # next_id
  /\ ~IsFloating(RowLabels(csv_rows[row_idx], API_MAPS.details).gateway)

====
